---- MODULE Spec2Model ----
(***************************************************************************)
(* Incident-detection and reconciliation engine of AI-FACTORY:             *)
(* the deduplication resolver (MinimalDedupeAgentV2.run), the status /     *)
(* duplicate-flag classifier (main of detect_remove_duplicates) and the    *)
(* CV-driven detectors of agents/incidence_detector.                       *)
(* The dedup part starts at pc = "loaded" (the raw record list) and the     *)
(* detectors at pc = "cleaned" (the cleaned list, the CV of the source and  *)
(* the execution date); the detector bundle runs empty, volume, schedule,  *)
(* missing in that order, each run to completion.                          *)
(*                                                                         *)
(* Representation.  A record list is a sequence of records; the program's  *)
(* dict objects are identified by their index in the list (Python `is`).   *)
(* An optional JSON value is a sequence of length 0 (null / key absent) or *)
(* 1 (the value).  file_size is kept in integer units.  A timestamp is     *)
(* [k, day, min]: k = "none" (null), "bad" (a string fromisoformat         *)
(* rejects) or "ts" (day number since the epoch, minute of the day, UTC).  *)
(***************************************************************************)
EXTENDS Integers, Sequences, FiniteSets, TLC

VARIABLES pc, records, final, removed, harmless, anomalies, ok,
          cv, exec_day, last_week_records,
          empty_res, volume_res, schedule_res, missing_res,
          call, orch_pc, job, sem_value, waiters, results, anom_files, output

dedupVars == <<final, removed, harmless, anomalies, ok>>

inputVars == <<records, cv, exec_day, last_week_records>>

detectorVars == <<pc, records, final, removed, harmless, anomalies, ok,
                  cv, exec_day, last_week_records,
                  empty_res, volume_res, schedule_res, missing_res>>

orchVars == <<call, orch_pc, job, sem_value, waiters, results, anom_files, output>>

vars == <<pc, records, final, removed, harmless, anomalies, ok,
          cv, exec_day, last_week_records,
          empty_res, volume_res, schedule_res, missing_res,
          call, orch_pc, job, sem_value, waiters, results, anom_files, output>>

---------------------------------------------------------------------------
(* Bounds *)

MaxRecs == 3

MaxDetRecs == 2

MaxEscRecs == 4

MaxSchedRecs == 1

---------------------------------------------------------------------------
(* Generic helpers *)

Range(s) == {s[i] : i \in 1..Len(s)}

RECURSIVE Flatten(_)
Flatten(ss) == IF ss = <<>> THEN <<>> ELSE Head(ss) \o Flatten(Tail(ss))

SeqsUpTo(S, n) == UNION {[1..k -> S] : k \in 0..n}

None == <<>>

Some(v) == <<v>>

\* a value that int() and float() reject (a non-numeric string): neither
\* None nor Some(v)
NotNumeric == <<0, 0>>

\* int(v) under try/except: None when v is null or not numeric
IntOrNone(v) == IF Len(v) = 1 THEN v ELSE None

NoTs == [k |-> "none", day |-> 0, min |-> 0]

BadTs == [k |-> "bad", day |-> 0, min |-> 0]

At(d, m) == [k |-> "ts", day |-> d, min |-> m]

\* A date string (covered_date): null, unparseable, or the day number.
NoDate == [k |-> "none", day |-> 0]

BadDate == [k |-> "bad", day |-> 0]

OnDay(d) == [k |-> "date", day |-> d]

---------------------------------------------------------------------------
(* detect_remove_duplicates/agents.py: helpers *)

\* _ts: 0.0 for a null, empty or unparseable string, else the POSIX time
\* (here in minutes).
_ts(s) == IF s.k = "ts" THEN s.day * (24 * 60) + s.min ELSE 0

\* str(status).strip().lower() on the raw status strings of the model.
StripLower(s) ==
    CASE s = " Processed " -> "processed"
      [] s = "FAILED" -> "failed"
      [] s = "Empty" -> "empty"
      [] OTHER -> s

_status_text(r) == StripLower(r.status)

_status_is_processed(r) == StripLower(r.status) = "processed"

\* key of _choose_keeper: (int(rows or 0), float(file_size or 0.0), _ts(uploaded_at))
IntOr0(v) == IF v = None THEN 0 ELSE v[1]

KeeperKey(r) == <<IntOr0(r.rows), IntOr0(r.file_size), _ts(r.uploaded_at)>>

\* Python tuple comparison a > b
TupleGreater(a, b) ==
    \/ a[1] > b[1]
    \/ a[1] = b[1] /\ a[2] > b[2]
    \/ a[1] = b[1] /\ a[2] = b[2] /\ a[3] > b[3]

_choose_keeper_rows_only(recs, items) ==
    LET isMax(j) == \A l \in 1..Len(items) :
                       IntOr0(recs[items[l]].rows) <= IntOr0(recs[items[j]].rows)
        p == CHOOSE j \in 1..Len(items) :
                 isMax(j) /\ \A l \in 1..(j-1) : ~isMax(l)
    IN items[p]

\* max(items, key=...) returns the first item no other item exceeds.
\* items is a sequence of indices into recs.
_choose_keeper(recs, items) ==
    LET isMax(j) == \A l \in 1..Len(items) :
                       ~TupleGreater(KeeperKey(recs[items[l]]), KeeperKey(recs[items[j]]))
        p == CHOOSE j \in 1..Len(items) :
                 isMax(j) /\ \A l \in 1..(j-1) : ~isMax(l)
    IN items[p]

\* _group_by over the records at the (ascending) indices idxs: the buckets in
\* order of first occurrence of their key, records whose key is None skipped.
_group_by(idxs, Has(_), Key(_)) ==
    LET members == Range(idxs)
        firsts == SelectSeq(idxs, LAMBDA i :
                     Has(i) /\ \A j \in members : (j < i /\ Has(j)) => Key(j) # Key(i))
    IN [g \in 1..Len(firsts) |->
            SelectSeq(idxs, LAMBDA i : Has(i) /\ Key(i) = Key(firsts[g]))]

\* r.get("batch") or ""
BatchOrEmpty(r) == IF r.batch = None THEN "" ELSE r.batch[1]

\* ck_key: None when cleaned_filename is falsy, else (cleaned_filename, batch or "")
ck_has(r) == r.cleaned_filename # ""

ck_key(r) == <<r.cleaned_filename, BatchOrEmpty(r)>>

AllIdx(recs) == [i \in 1..Len(recs) |-> i]

\* Pass 1: the filename buckets with more than one record.
Pass1Groups(recs) ==
    SelectSeq(_group_by(AllIdx(recs), LAMBDA i : TRUE, LAMBDA i : <<recs[i].filename>>),
              LAMBDA g : Len(g) > 1)

Pass1Grouped(recs) == UNION {Range(g) : g \in Range(Pass1Groups(recs))}

Pass2GroupsAll(recs) ==
    SelectSeq(_group_by(AllIdx(recs),
                        LAMBDA i : ck_has(recs[i]),
                        LAMBDA i : ck_key(recs[i])),
              LAMBDA g : Len(g) > 1)

\* Pass 2: (cleaned_filename, batch) buckets among the records pass 1 left.
Pass2Groups(recs) ==
    LET grouped1 == Pass1Grouped(recs)
        remaining_indices == SelectSeq(AllIdx(recs), LAMBDA i : i \notin grouped1)
    IN SelectSeq(_group_by(remaining_indices,
                           LAMBDA i : ck_has(recs[i]),
                           LAMBDA i : ck_key(recs[i])),
                 LAMBDA g : Len(g) > 1)

dup_groups(recs) == Pass1Groups(recs) \o Pass2Groups(recs)

\* grouped: the indices of all members of the duplicate groups
grouped(groups) == UNION {Range(g) : g \in Range(groups)}

non_dup_indices(recs, groups) ==
    LET grp == grouped(groups)
    IN SelectSeq(AllIdx(recs), LAMBDA i : i \notin grp)

processed(recs, g) == SelectSeq(g, LAMBDA i : _status_is_processed(recs[i]))

\* The keeper of a duplicate group (0: no keeper selected).
GroupKeeper(recs, g) ==
    LET p == processed(recs, g)
    IN IF Len(p) = 0 THEN 0
       ELSE IF Len(p) > 1 THEN _choose_keeper(recs, p)
       ELSE p[1]

\* dedupe_reason strings: "no_processed (no keeper selected)" and
\* f"multi_processed (keeper={keeper.get('filename')})"
NoProcessedReason == [kind |-> "no_processed", keeper |-> "no keeper selected"]

MultiProcessedReason(fn) == [kind |-> "multi_processed", keeper |-> fn]

GroupFinalFirst(recs, g) ==
    IF GroupKeeper(recs, g) = 0 THEN <<g[1]>> ELSE <<GroupKeeper(recs, g)>>

GroupFinal(recs, g) ==
    IF GroupKeeper(recs, g) = 0 THEN <<>> ELSE <<GroupKeeper(recs, g)>>

GroupRemoved(recs, g) ==
    LET p == processed(recs, g)
        keeper == GroupKeeper(recs, g)
    IN IF Len(p) = 0
       THEN [j \in 1..Len(g) |-> [idx |-> g[j], dedupe_reason |-> NoProcessedReason]]
       ELSE IF Len(p) > 1
       THEN LET others == SelectSeq(g, LAMBDA i : i # keeper)
            IN [j \in 1..Len(others) |->
                   [idx |-> others[j],
                    dedupe_reason |-> MultiProcessedReason(recs[keeper].filename)]]
       ELSE <<>>

\* harmless without skipping the keeper
GroupHarmlessWithKeeper(recs, g) ==
    IF Len(processed(recs, g)) = 1 THEN g ELSE <<>>

GroupHarmless(recs, g) ==
    LET p == processed(recs, g)
    IN IF Len(p) = 1 THEN SelectSeq(g, LAMBDA i : i # GroupKeeper(recs, g)) ELSE <<>>

\* MinimalDedupeAgentV2.run: final holds record indices (the objects of the
\* input list), removed the copies with their dedupe_reason, harmless copies.
DedupFinal(recs) ==
    LET groups == dup_groups(recs)
    IN non_dup_indices(recs, groups)
         \o Flatten([j \in 1..Len(groups) |-> GroupFinal(recs, groups[j])])

DedupRemoved(recs) ==
    LET groups == dup_groups(recs)
    IN Flatten([j \in 1..Len(groups) |-> GroupRemoved(recs, groups[j])])

DedupHarmless(recs) ==
    LET groups == dup_groups(recs)
    IN Flatten([j \in 1..Len(groups) |-> GroupHarmless(recs, groups[j])])

\* int(it.get("rows") or 0) or float(it.get("file_size") or 0.0) raises
\* ValueError for one of the items handed to _choose_keeper
KeeperKeyRaises(recs, items) ==
    \E j \in 1..Len(items) :
        recs[items[j]].rows = NotNumeric \/ recs[items[j]].file_size = NotNumeric

\* run() calls _choose_keeper for the groups with more than one processed
\* record and catches nothing
DedupRaises(recs) ==
    LET groups == dup_groups(recs)
    IN \E j \in 1..Len(groups) :
          /\ Len(processed(recs, groups[j])) > 1
          /\ KeeperKeyRaises(recs, processed(recs, groups[j]))

\* MinimalDedupeAgentV2.run: the three outputs, or the exception of
\* _choose_keeper (pc = "raised", no output)
DedupRun ==
    /\ pc = "loaded"
    /\ IF DedupRaises(records)
       THEN /\ pc' = "raised"
            /\ UNCHANGED <<final, removed, harmless>>
       ELSE /\ final' = DedupFinal(records)
            /\ removed' = DedupRemoved(records)
            /\ harmless' = DedupHarmless(records)
            /\ pc' = "deduped"
    /\ UNCHANGED <<inputVars, anomalies, ok>>
    /\ UNCHANGED <<empty_res, volume_res, schedule_res, missing_res>>
    /\ UNCHANGED orchVars

---------------------------------------------------------------------------
(* detect_remove_duplicates/agents.py main: status / duplicate classifier *)

Key4(r) == <<r.filename, r.cleaned_filename, r.batch, r.uploaded_at>>

removed_set(recs, rem) == {Key4(recs[rem[j].idx]) : j \in 1..Len(rem)}

_removed_reason_swapped(item) ==
    IF item.dedupe_reason.kind = "multi_processed"
    THEN <<"duplicate_multi_processed", "attention">>
    ELSE IF item.dedupe_reason.kind = "no_processed"
    THEN <<"duplicate_none_processed", "urgent">>
    ELSE <<"duplicate_unprocessed_copy", "attention">>

_removed_reason(item) ==
    IF item.dedupe_reason.kind = "multi_processed"
    THEN <<"duplicate_multi_processed", "urgent">>
    ELSE IF item.dedupe_reason.kind = "no_processed"
    THEN <<"duplicate_none_processed", "attention">>
    ELSE <<"duplicate_unprocessed_copy", "attention">>

RemovedAnomalies(rem) ==
    [j \in 1..Len(rem) |->
        [src |-> rem[j].idx,
         incident_type |-> "duplicate",
         incident_reason |-> _removed_reason(rem[j])[1],
         severity |-> _removed_reason(rem[j])[2]]]

\* r.get("is_duplicated") is a bool or null in the data model
is_dupe_flag(r) == r.is_duplicated

\* The verdict of the loop body for one original record:
\* "skip" (continue), "status_failure", "duplicate" or "ok".
OriginalVerdict(recs, rset, i) ==
    IF Key4(recs[i]) \in rset THEN "skip"
    ELSE IF _status_text(recs[i]) # "processed" THEN "status_failure"
    ELSE IF is_dupe_flag(recs[i]) THEN "duplicate"
    ELSE "ok"

OriginalAnomaly(recs, i, verdict) ==
    IF verdict = "status_failure"
    THEN [src |-> i,
          incident_type |-> "status_failure",
          incident_reason |-> "status=" \o _status_text(recs[i]),
          severity |-> IF _status_text(recs[i]) = "failed" THEN "urgent" ELSE "attention"]
    ELSE [src |-> i,
          incident_type |-> "duplicate",
          incident_reason |-> "flagged_is_duplicated",
          severity |-> "attention"]

OriginalAnomalies(recs, rem) ==
    LET rset == removed_set(recs, rem)
        flagged == SelectSeq(AllIdx(recs), LAMBDA i :
                       OriginalVerdict(recs, rset, i) \in {"status_failure", "duplicate"})
    IN [j \in 1..Len(flagged) |->
           OriginalAnomaly(recs, flagged[j], OriginalVerdict(recs, rset, flagged[j]))]

OriginalOk(recs, rem) ==
    LET rset == removed_set(recs, rem)
    IN SelectSeq(AllIdx(recs), LAMBDA i : OriginalVerdict(recs, rset, i) = "ok")

ClassifyRun ==
    /\ pc = "deduped"
    /\ anomalies' = RemovedAnomalies(removed) \o OriginalAnomalies(records, removed)
    /\ ok' = OriginalOk(records, removed)
    /\ pc' = "classified"
    /\ UNCHANGED <<inputVars, final, removed, harmless>>
    /\ UNCHANGED <<empty_res, volume_res, schedule_res, missing_res>>
    /\ UNCHANGED orchVars

---------------------------------------------------------------------------
(* The CV document.  A stat block is a function from the keys it holds to  *)
(* optional numbers (None: the key holds null); a missing block, a null    *)
(* and {} are all the block without keys.                                  *)

EmptyBlock == [k \in {} |-> None]

\* {}: no CV document for the source (every _safe_get returns its default).
EmptyCV ==
    [entity_weekday |-> <<>>, weekday |-> <<>>, per_weekday |-> <<>>,
     per_weekday_present |-> FALSE, overall_present |-> FALSE,
     rows_stats |-> EmptyBlock, normal_95 |-> EmptyBlock,
     status_percentages |-> EmptyBlock, upload_schedule_by_day |-> <<>>]

DAY_NAMES == <<"Mon", "Tue", "Wed", "Thu", "Fri", "Sat", "Sun">>

\* DAY_NAMES[dt.weekday()] for the day number d (day 0 = 1970-01-01, a Thursday)
WeekdayOfDay(d) == DAY_NAMES[((d + 3) % 7) + 1]

\* _weekday_from_base_folder of the execution folder
folder_weekday == WeekdayOfDay(exec_day)

\* _weekday_for_record: covered_date if it parses, else uploaded_at if it
\* parses, else the folder's weekday.
_weekday_for_record(r, fw) ==
    IF r.covered_date.k = "date" THEN WeekdayOfDay(r.covered_date.day)
    ELSE IF r.uploaded_at.k = "ts" THEN WeekdayOfDay(r.uploaded_at.day)
    ELSE fw

\* Index of the first row of a CV table that satisfies Match (0: none).
FirstRow(rows, Match(_)) ==
    IF \E j \in 1..Len(rows) : Match(rows[j])
    THEN CHOOSE j \in 1..Len(rows) : Match(rows[j]) /\ \A l \in 1..(j-1) : ~Match(rows[l])
    ELSE 0

---------------------------------------------------------------------------
(* detect_unexpected_empty/agents.py.  Optional[bool] answers are the      *)
(* strings "True", "False" and "None".                                     *)

\* The loop over the keys of an empty_files block: True at the first key
\* whose value is > 0, False when some key was seen, None otherwise.
ExpectedZeroFromBlock(emp, keys) ==
    IF DOMAIN emp = {} THEN "None"
    ELSE IF \E j \in 1..Len(keys) :
               keys[j] \in DOMAIN emp /\ emp[keys[j]] # None /\ emp[keys[j]][1] > 0
    THEN "True"
    ELSE IF \E j \in 1..Len(keys) : keys[j] \in DOMAIN emp
    THEN "False"
    ELSE "None"

GlobalWeekdayKeysWithMin == <<"min", "mean", "median", "mode", "max">>

GlobalWeekdayKeys == <<"mean", "median", "mode", "max">>

Section4WeekdayKeys == <<"min", "mean", "median", "mode", "max">>

_cv_expected_zero_global_weekday(c, weekday) ==
    LET j == FirstRow(c.per_weekday, LAMBDA row : row.day = weekday)
    IN IF j = 0 THEN "None"
       ELSE ExpectedZeroFromBlock(c.per_weekday[j].empty_files, GlobalWeekdayKeys)

_cv_expected_zero_entity_weekday(c, entity, weekday) ==
    LET j == FirstRow(c.entity_weekday,
                      LAMBDA row : row.entity = entity /\ row.day = weekday)
    IN IF j = 0 THEN "None"
       ELSE IF c.entity_weekday[j].median_empty = None THEN "None"
       ELSE IF c.entity_weekday[j].median_empty[1] > 0 THEN "True"
       ELSE "False"

_cv_expected_zero_weekday_section4(c, weekday) ==
    LET j == FirstRow(c.weekday, LAMBDA row : row.day = weekday)
    IN IF j = 0 THEN "None"
       ELSE ExpectedZeroFromBlock(c.weekday[j].empty_files, Section4WeekdayKeys)

StatusPctKeys == <<"empty", "empties", "empty_files">>

\* float(pct[k]) > 0 at the first of the keys that is present and numeric
_cv_global_empty_expected_section2(c) ==
    LET pct == c.status_percentages
        usable(j) == StatusPctKeys[j] \in DOMAIN pct /\ pct[StatusPctKeys[j]] # None
    IN IF \E j \in 1..Len(StatusPctKeys) : usable(j)
       THEN LET j == CHOOSE j \in 1..Len(StatusPctKeys) :
                        usable(j) /\ \A l \in 1..(j-1) : ~usable(l)
            IN IF pct[StatusPctKeys[j]][1] > 0 THEN "True" ELSE "False"
       ELSE "None"

_is_zero_expected_global_first(c, entity, weekday) ==
    LET ent == _cv_expected_zero_entity_weekday(c, entity, weekday)
        wk4 == _cv_expected_zero_weekday_section4(c, weekday)
        glob == _cv_expected_zero_global_weekday(c, weekday)
        glob2 == _cv_global_empty_expected_section2(c)
    IN IF glob2 # "None" THEN glob2 = "True"
       ELSE IF glob # "None" THEN glob = "True"
       ELSE IF wk4 # "None" THEN wk4 = "True"
       ELSE IF ent # "None" THEN ent = "True"
       ELSE FALSE

_is_zero_expected(c, entity, weekday) ==
    LET ent == _cv_expected_zero_entity_weekday(c, entity, weekday)
        wk4 == _cv_expected_zero_weekday_section4(c, weekday)
        glob == _cv_expected_zero_global_weekday(c, weekday)
        glob2 == _cv_global_empty_expected_section2(c)
    IN IF ent # "None" THEN ent = "True"
       ELSE IF wk4 # "None" THEN wk4 = "True"
       ELSE IF glob # "None" THEN glob = "True"
       ELSE IF glob2 # "None" THEN glob2 = "True"
       ELSE FALSE

\* str(r.get("status") or "").strip().lower()
StatusOrEmpty(r) == StripLower(r.status)

_is_empty_candidate(r) ==
    \/ IntOrNone(r.rows) # None /\ IntOrNone(r.rows)[1] = 0
    \/ StatusOrEmpty(r) \in {"empty", "no_data"}

urgent_entity_count_threshold == 3

IsUrgentAtLeast(count) == count >= urgent_entity_count_threshold

\* unexpected_by_entity.get(ent, 0) > self.urgent_entity_count_threshold
IsUrgent(count) == count > urgent_entity_count_threshold

\* UnexpectedEmptyDetectorAgent.run on the cleaned list recs
\* the anomaly dict without the copied record
AnomalyCopyAddedOnly(r, added) == added

\* {**r, "incident_type": ..., ...}: the record's fields, then the added
\* keys (src is the position of r in the input list)
AnomalyCopy(r, added) == added @@ r

EmptyDetect(recs, c, fw) ==
    LET candidates == SelectSeq(AllIdx(recs), LAMBDA i : _is_empty_candidate(recs[i]))
        expected_zero(i) ==
            _is_zero_expected(c, recs[i].entity, _weekday_for_record(recs[i], fw))
        expectedC == SelectSeq(candidates, LAMBDA i : expected_zero(i))
        unexpected == SelectSeq(candidates, LAMBDA i : ~expected_zero(i))
        unexpected_by_entity(e) ==
            Cardinality({i \in Range(unexpected) : recs[i].entity = e})
    IN [ok |-> SelectSeq(AllIdx(recs), LAMBDA i : ~_is_empty_candidate(recs[i])) \o expectedC,
        anomalies |->
            [j \in 1..Len(unexpected) |->
              AnomalyCopy(recs[unexpected[j]],
                [src |-> unexpected[j],
                 incident_type |-> "unexpected_empty",
                 weekday_utc |-> _weekday_for_record(recs[unexpected[j]], fw),
                 severity |->
                     IF IsUrgent(unexpected_by_entity(recs[unexpected[j]].entity))
                     THEN "urgent" ELSE "attention"])],
        stats |-> [total_records |-> Len(recs),
                   empty_candidates |-> Len(candidates),
                   expected_empty |-> Len(expectedC),
                   unexpected_empty |-> Len(unexpected)]]

EmptyRun ==
    /\ pc = "cleaned"
    /\ empty_res' = EmptyDetect(records, cv, folder_weekday)
    /\ pc' = "empty_done"
    /\ UNCHANGED <<inputVars, dedupVars, volume_res, schedule_res, missing_res>>
    /\ UNCHANGED orchVars

---------------------------------------------------------------------------
(* detect_unexpected_volume/agents.py.  Bands are kept in tenths of a row  *)
(* (lo10 = 10 * lo); for the integers of the model the double products     *)
(* 0.9 * min and 1.1 * max compare with an integer row count exactly as    *)
(* the decimal products do.  An absent band is NoBand.                     *)

\* block.get(k): None when the key is absent or null
BlockGet(b, k) == IF k \in DOMAIN b THEN b[k] ELSE None

\* int(rows) of the records with rows > 0
NonzeroRows(recs) ==
    LET idx == SelectSeq(AllIdx(recs), LAMBDA i :
                   IntOrNone(recs[i].rows) # None /\ IntOrNone(recs[i].rows)[1] > 0)
    IN [j \in 1..Len(idx) |-> recs[idx[j]].rows[1]]

\* the k-th smallest element of a sequence of numbers (vals.sort(); vals[k-1])
KthSmallest(vals, k) ==
    CHOOSE v \in Range(vals) :
        /\ Cardinality({j \in 1..Len(vals) : vals[j] < v}) < k
        /\ Cardinality({j \in 1..Len(vals) : vals[j] <= v}) >= k

\* _current_nonzero_rows_median, doubled (None when no record has rows > 0)
_current_nonzero_rows_median2(recs) ==
    LET vals == NonzeroRows(recs)
        m == Len(vals)
        mid == m \div 2
    IN IF m = 0 THEN None
       ELSE IF m % 2 = 1 THEN Some(2 * KthSmallest(vals, mid + 1))
       ELSE Some(KthSmallest(vals, mid) + KthSmallest(vals, mid + 1))

NoBand == [kind |-> "none", lo10 |-> 0, hi10 |-> 0, center10 |-> 0]

Max0(x) == IF x < 0 THEN 0 ELSE x

_band_from_rows_minmax_median_inclusive(rows_block) ==
    LET mn == BlockGet(rows_block, "min")
        mx == BlockGet(rows_block, "max")
        md == BlockGet(rows_block, "median")
    IN IF mn # None /\ mx # None /\ mx[1] > 0
       THEN [kind |-> "minmax",
             lo10 |-> Max0(9 * mn[1]) + 1,
             hi10 |-> 11 * mx[1] - 1,
             center10 |-> Max0(IF md # None THEN 10 * md[1] ELSE 5 * (mn[1] + mx[1]))]
       ELSE IF md # None /\ md[1] > 0
       THEN [kind |-> "median", lo10 |-> 5 * md[1], hi10 |-> 20 * md[1], center10 |-> 10 * md[1]]
       ELSE NoBand

\* (lo, hi, center) of a rows block: the 10% cushion around min and max,
\* else the symmetric band around the median
_band_from_rows_minmax_median(rows_block) ==
    LET mn == BlockGet(rows_block, "min")
        mx == BlockGet(rows_block, "max")
        md == BlockGet(rows_block, "median")
    IN IF mn # None /\ mx # None /\ mx[1] > 0
       THEN [kind |-> "minmax",
             lo10 |-> Max0(9 * mn[1]),
             hi10 |-> 11 * mx[1],
             center10 |-> Max0(IF md # None THEN 10 * md[1] ELSE 5 * (mn[1] + mx[1]))]
       ELSE IF md # None /\ md[1] > 0
       THEN [kind |-> "median", lo10 |-> 5 * md[1], hi10 |-> 20 * md[1], center10 |-> 10 * md[1]]
       ELSE NoBand

_band_from_normal_95(normal_95_block, median_val) ==
    LET lo == BlockGet(normal_95_block, "lo")
        hi == BlockGet(normal_95_block, "hi")
    IN IF lo = None \/ hi = None THEN NoBand
       ELSE IF hi[1] <= 0 THEN NoBand
       ELSE [kind |-> "normal_95",
             lo10 |-> Max0(10 * lo[1]),
             hi10 |-> 10 * hi[1],
             center10 |-> Max0(IF median_val # None THEN 10 * median_val[1]
                               ELSE 5 * (lo[1] + hi[1]))]

_weekday_row_median_from_section3(c, weekday) ==
    LET j == FirstRow(c.per_weekday, LAMBDA row : row.day = weekday)
    IN IF j = 0 THEN None ELSE BlockGet(c.per_weekday[j].rows, "median")

daily_total_ratio_flag == 20

LooksLikeDailyTotalsStrict(wd_md, median2) == 2 * wd_md > daily_total_ratio_flag * median2

\* float(wd_md) / float(current_perfile_median) >= daily_total_ratio_flag,
\* with the doubled median of today's rows
LooksLikeDailyTotals(wd_md, median2) == 2 * wd_md >= daily_total_ratio_flag * median2

\* the band of the first per_weekday row of the weekday
PerWeekdayBand(c, weekday) ==
    LET j == FirstRow(c.per_weekday, LAMBDA row : row.day = weekday)
    IN IF j = 0 THEN NoBand ELSE _band_from_rows_minmax_median(c.per_weekday[j].rows)

\* B) and C): the overall rows_stats band, else the overall normal_95 band
OverallBand(c) ==
    IF ~c.overall_present THEN NoBand
    ELSE IF _band_from_rows_minmax_median(c.rows_stats) # NoBand
    THEN _band_from_rows_minmax_median(c.rows_stats)
    ELSE _band_from_normal_95(c.normal_95, BlockGet(c.rows_stats, "median"))

\* _expected_band_from_section3; weekday is None or Some(day name),
\* median2 the doubled median of today's nonzero rows or None.
_expected_band_from_section3(c, weekday, median2) ==
    LET wd_md == _weekday_row_median_from_section3(c, weekday[1])
        A == IF c.per_weekday_present /\ weekday # None
             THEN IF median2 # None /\ median2[1] > 0
                  THEN IF wd_md = None THEN NoBand
                       ELSE IF LooksLikeDailyTotals(wd_md[1], median2[1]) THEN NoBand
                       ELSE PerWeekdayBand(c, weekday[1])
                  ELSE PerWeekdayBand(c, weekday[1])
             ELSE NoBand
    IN IF A # NoBand THEN A ELSE OverallBand(c)

VolumeSkippedNullOnly(r) == IntOrNone(r.rows) = None

\* rows_num is None or rows_num == 0: the record goes to ok unjudged
VolumeSkipped(r) == IntOrNone(r.rows) = None \/ IntOrNone(r.rows)[1] = 0

\* UnexpectedVolumeVariationAgent.run
VolumeDetect(recs, c, fw) ==
    LET current_median == _current_nonzero_rows_median2(recs)
        overall_band == _expected_band_from_section3(c, None, current_median)
        skipped(i) == VolumeSkipped(recs[i])
        band(i) ==
            LET wb == IF c.per_weekday_present
                      THEN _expected_band_from_section3(
                               c, Some(_weekday_for_record(recs[i], fw)), current_median)
                      ELSE NoBand
            IN IF wb # NoBand THEN wb ELSE overall_band
        judged(i) == ~skipped(i) /\ band(i) # NoBand
        outside(i) == 10 * recs[i].rows[1] < band(i).lo10 \/ 10 * recs[i].rows[1] > band(i).hi10
        flagged == SelectSeq(AllIdx(recs), LAMBDA i : judged(i) /\ outside(i))
    IN [ok |-> SelectSeq(AllIdx(recs), LAMBDA i : ~(judged(i) /\ outside(i))),
        anomalies |->
            [j \in 1..Len(flagged) |->
              AnomalyCopy(recs[flagged[j]],
                [src |-> flagged[j],
                 incident_type |-> "volume_anomaly",
                 weekday_utc |-> _weekday_for_record(recs[flagged[j]], fw),
                 expected_lo |-> band(flagged[j]).lo10,
                 expected_hi |-> band(flagged[j]).hi10,
                 expected_center |-> band(flagged[j]).center10,
                 severity |-> "attention"])],
        stats |-> [total_records |-> Len(recs),
                   candidates_judged |-> Cardinality({i \in 1..Len(recs) : judged(i)}),
                   flagged |-> Len(flagged)]]

VolumeRun ==
    /\ pc = "empty_done"
    /\ volume_res' = VolumeDetect(records, cv, folder_weekday)
    /\ pc' = "volume_done"
    /\ UNCHANGED <<inputVars, dedupVars, empty_res, schedule_res, missing_res>>
    /\ UNCHANGED orchVars

---------------------------------------------------------------------------
(* detect_after_schedule/agents.py.  A time string is [k, h, m]: k =       *)
(* "none" (null or empty), "bad" (no integer fields), "hm" ("HH:MM", also  *)
(* with seconds or a trailing UTC) or "h" ("HH").  A window string is      *)
(* [k, start, end]: "none", "range" ("HH:MM-HH:MM UTC"), "spaced" (blanks  *)
(* around the dash: the first token is the start) or "single" (one time).  *)

NoTime == [k |-> "none", h |-> 0, m |-> 0]

BadTime == [k |-> "bad", h |-> 0, m |-> 0]

HM(h, m) == [k |-> "hm", h |-> h, m |-> m]

HH(h) == [k |-> "h", h |-> h, m |-> 0]

NoWindow == [k |-> "none", start |-> NoTime, end |-> NoTime]

Window(a, b) == [k |-> "range", start |-> a, end |-> b]

SpacedWindow(a, b) == [k |-> "spaced", start |-> a, end |-> b]

SingleTime(a) == [k |-> "single", start |-> a, end |-> NoTime]

_parse_time_to_minutes(t) ==
    IF t.k = "hm"
    THEN IF 0 <= t.h /\ t.h < 24 /\ 0 <= t.m /\ t.m < 60 THEN Some(t.h * 60 + t.m) ELSE None
    ELSE IF t.k = "h"
    THEN IF 0 <= t.h /\ t.h < 24 THEN Some(t.h * 60) ELSE None
    ELSE None

_parse_window_end_minutes(w) ==
    IF w.k = "range" THEN _parse_time_to_minutes(w.end)
    ELSE IF w.k \in {"spaced", "single"} THEN _parse_time_to_minutes(w.start)
    ELSE None

\* the weekday of the day before the upload
_upload_weekday_of_previous_day(ua, fallback) ==
    IF ua.k = "ts" THEN WeekdayOfDay(ua.day - 1) ELSE fallback

_upload_weekday_from_uploaded_at(ua, fallback) ==
    IF ua.k = "ts" THEN WeekdayOfDay(ua.day) ELSE fallback

_minutes_since_midnight(ua) == IF ua.k = "ts" THEN Some(ua.min) ELSE None

\* the first of the four candidates that parses
_schedule_end_minutes_for_weekday(c, weekday) ==
    LET j == FirstRow(c.upload_schedule_by_day, LAMBDA row : row.day = weekday)
        row == c.upload_schedule_by_day[j]
    IN IF j = 0 THEN None
       ELSE IF _parse_window_end_minutes(row.expected_window_utc) # None
       THEN _parse_window_end_minutes(row.expected_window_utc)
       ELSE IF _parse_time_to_minutes(row.upload_hour_slot_median_utc) # None
       THEN _parse_time_to_minutes(row.upload_hour_slot_median_utc)
       ELSE IF _parse_time_to_minutes(row.upload_hour_slot_mode_utc) # None
       THEN _parse_time_to_minutes(row.upload_hour_slot_mode_utc)
       ELSE _parse_time_to_minutes(row.upload_hour_slot_mean_utc)

_days_lag_utc(covered_date, ua) ==
    IF covered_date.k = "date" /\ ua.k = "ts" THEN Some(ua.day - covered_date.day) ELSE None

_lag_mode_for_weekday(c, weekday) ==
    LET j == FirstRow(c.upload_schedule_by_day, LAMBDA row : row.day = weekday)
    IN IF j = 0 THEN None ELSE c.upload_schedule_by_day[j].upload_lag_days_mode

Abs(x) == IF x < 0 THEN -x ELSE x

late_threshold_minutes == 4 * 60

IsBackfillWide(lag_days, lag_mode) ==
    /\ lag_days # None
    /\ IF lag_mode # None
       THEN Abs(lag_days[1] - lag_mode[1]) > 2
       ELSE lag_days[1] > 2

\* the lag of a backfill: off the mode by more than one day or, without a
\* mode, more than one day
IsBackfill(lag_days, lag_mode) ==
    /\ lag_days # None
    /\ IF lag_mode # None
       THEN Abs(lag_days[1] - lag_mode[1]) > 1
       ELSE lag_days[1] > 1

IsLateInclusive(upload_min, expected_end_min) ==
    upload_min >= expected_end_min + late_threshold_minutes

\* upload_min > expected_end_min + self.late_threshold_minutes
IsLate(upload_min, expected_end_min) ==
    upload_min > expected_end_min + late_threshold_minutes

\* UploadAfterScheduleDetectorAgent.run
ScheduleDetect(recs, c, weekday_fallback) ==
    LET upload_weekday(i) == _upload_weekday_from_uploaded_at(recs[i].uploaded_at, weekday_fallback)
        lag_days(i) == _days_lag_utc(recs[i].covered_date, recs[i].uploaded_at)
        lag_mode(i) == _lag_mode_for_weekday(c, upload_weekday(i))
        backfill(i) == IsBackfill(lag_days(i), lag_mode(i))
        expected_end(i) == _schedule_end_minutes_for_weekday(c, upload_weekday(i))
        judged(i) ==
            /\ _minutes_since_midnight(recs[i].uploaded_at) # None
            /\ ~backfill(i)
            /\ expected_end(i) # None
        late(i) == judged(i) /\ IsLate(recs[i].uploaded_at.min, expected_end(i)[1])
        flagged == SelectSeq(AllIdx(recs), LAMBDA i : late(i))
    IN [ok |-> SelectSeq(AllIdx(recs), LAMBDA i : ~late(i)),
        anomalies |->
            [j \in 1..Len(flagged) |->
              AnomalyCopy(recs[flagged[j]],
                [src |-> flagged[j],
                 incident_type |-> "upload_after_schedule",
                 delta_min |-> recs[flagged[j]].uploaded_at.min - expected_end(flagged[j])[1],
                 cutoff |-> expected_end(flagged[j])[1],
                 weekday_upload_utc |-> upload_weekday(flagged[j]),
                 severity |-> "attention"])],
        stats |-> [total_records |-> Len(recs),
                   candidates_judged |-> Cardinality({i \in 1..Len(recs) : judged(i)}),
                   flagged |-> Len(flagged)]]

ScheduleRun ==
    /\ pc = "volume_done"
    /\ schedule_res' = ScheduleDetect(records, cv, folder_weekday)
    /\ pc' = "schedule_done"
    /\ UNCHANGED <<inputVars, dedupVars, empty_res, volume_res, missing_res>>
    /\ UNCHANGED orchVars

---------------------------------------------------------------------------
(* detect_missing_file/agents.py *)

\* str(...).strip() on the entity strings of the model
StripEntity(e) == IF e = " Shop " THEN "Shop" ELSE e

\* _records_on_exec_day: a record without uploaded_at is kept; an
\* unparseable uploaded_at is read as the wall-clock day now_day.
_records_on_exec_day(recs, xday, now_day) ==
    SelectSeq(AllIdx(recs), LAMBDA i :
        \/ recs[i].uploaded_at.k = "none"
        \/ recs[i].uploaded_at.k = "ts" /\ recs[i].uploaded_at.day = xday
        \/ recs[i].uploaded_at.k = "bad" /\ now_day = xday)

\* _actual_counts_by_entity(...).get(ent, 0) over the records at idx
ActualCount(recs, idx, ent) ==
    Cardinality({j \in 1..Len(idx) :
        StripEntity(recs[idx[j]].entity) # "" /\ StripEntity(recs[idx[j]].entity) = ent})

_expected_from_cv_entity_weekday_any_median(c, weekday) ==
    SelectSeq(c.entity_weekday, LAMBDA it :
        /\ it.day = weekday
        /\ StripEntity(it.entity) # ""
        /\ it.median_files # None
        /\ it.median_files[1] >= 0)

\* _expected_from_cv_entity_weekday: the rows of the weekday with an entity
\* and median_files > 0
_expected_from_cv_entity_weekday(c, weekday) ==
    SelectSeq(c.entity_weekday, LAMBDA it :
        /\ it.day = weekday
        /\ StripEntity(it.entity) # ""
        /\ it.median_files # None
        /\ it.median_files[1] > 0)

_cv_has_entity_weekday_never(c) == FALSE

_cv_has_entity_weekday(c) == Len(c.entity_weekday) > 0

\* _cv_weekday_rows_median: None without a row for the weekday, 0 when the
\* row has no median
_cv_weekday_rows_median(c, weekday) ==
    LET j == FirstRow(c.weekday, LAMBDA row : row.day = weekday)
    IN IF j = 0 THEN None
       ELSE IF BlockGet(c.weekday[j].rows, "median") = None THEN Some(0)
       ELSE BlockGet(c.weekday[j].rows, "median")

last_week_entities(last) ==
    {StripEntity(last[j].entity) : j \in {l \in 1..Len(last) : last[l].entity # ""}}

\* MissingFileDetectorSimple.run
MissingDetect(recs, c, last, xday, now_day) ==
    LET weekday == WeekdayOfDay(xday)
        today_records == _records_on_exec_day(recs, xday, now_day)
        expected == _expected_from_cv_entity_weekday(c, weekday)
        missing == SelectSeq(expected, LAMBDA exp :
                       ActualCount(recs, today_records, StripEntity(exp.entity)) = 0)
        med == _cv_weekday_rows_median(c, weekday)
    IN [ok |-> today_records,
        anomalies |->
            IF _cv_has_entity_weekday(c)
            THEN [j \in 1..Len(missing) |->
                    [incident_type |-> "missing_files",
                     entity |-> StripEntity(missing[j].entity),
                     expected_count_hint |-> missing[j].median_files[1],
                     actual_count |-> 0,
                     weekday |-> weekday,
                     severity |-> "attention",
                     confidence_hint |->
                         IF StripEntity(missing[j].entity) \in last_week_entities(last)
                         THEN "high" ELSE "medium"]]
            ELSE IF med # None /\ med[1] > 0 /\ Len(today_records) = 0
            THEN <<[incident_type |-> "missing_source",
                    entity |-> "",
                    expected_count_hint |-> 0,
                    actual_count |-> 0,
                    weekday |-> weekday,
                    severity |-> "attention",
                    confidence_hint |-> IF Len(last) > 0 THEN "high" ELSE "medium"]>>
            ELSE <<>>,
        stats |-> [total_today_records |-> Len(today_records),
                   anomalies_found |->
                       IF _cv_has_entity_weekday(c) THEN Len(missing)
                       ELSE IF med # None /\ med[1] > 0 /\ Len(today_records) = 0 THEN 1
                       ELSE 0]]

\* datetime.now() is the day of the run: the execution day or a later one
MissingRun ==
    /\ pc = "schedule_done"
    /\ \E now_day \in {exec_day, exec_day + 1} :
          missing_res' = MissingDetect(records, cv, last_week_records, exec_day, now_day)
    /\ pc' = "detected"
    /\ UNCHANGED <<inputVars, dedupVars, empty_res, volume_res, schedule_res>>
    /\ UNCHANGED orchVars

---------------------------------------------------------------------------
(* Input domains *)

DefaultRecord ==
    [filename |-> "a.csv", cleaned_filename |-> "", batch |-> None,
     entity |-> "Shop", status |-> "processed", rows |-> Some(10),
     file_size |-> Some(1), uploaded_at |-> At(4, 0), covered_date |-> NoDate,
     is_duplicated |-> FALSE]

\* Grouping inputs: identity keys and status vary.
GroupingRecords ==
    {[DefaultRecord EXCEPT !.filename = f, !.cleaned_filename = cb[1], !.batch = cb[2],
                           !.status = s] :
        f \in {"a.csv", "b.csv", "c.csv"},
        cb \in {<<"", None>>, <<"c", None>>, <<"c", Some("1")>>},
        s \in {" Processed ", "failed"}}

NoResult == [ok |-> <<>>, anomalies |-> <<>>]

\* no orchestrator function has been called
NoCall == [fn |-> "none"]

OrchestratorIdle ==
    /\ call = NoCall
    /\ orch_pc = "idle"
    /\ job = <<>>
    /\ sem_value = 0
    /\ waiters = <<>>
    /\ results = <<>>
    /\ anom_files = {}
    /\ output = <<>>

InitOutputs ==
    /\ final = <<>>
    /\ removed = <<>>
    /\ harmless = <<>>
    /\ anomalies = <<>>
    /\ ok = <<>>
    /\ empty_res = NoResult
    /\ volume_res = NoResult
    /\ schedule_res = NoResult
    /\ missing_res = NoResult
    /\ OrchestratorIdle

\* The dedup part needs no CV: the resolver and the classifier read only the
\* record list.
InitDedupInputs ==
    /\ pc = "loaded"
    /\ cv = EmptyCV
    /\ exec_day = 4
    /\ last_week_records = <<>>

\* Keeper inputs: one filename, so that the records form one group; the
\* three components of the keeper key and the status vary.
KeeperRecords ==
    {[DefaultRecord EXCEPT !.rows = r, !.file_size = z, !.uploaded_at = u, !.status = s] :
        r \in {None, Some(20)}, z \in {Some(1), Some(2)}, u \in {BadTs, At(4, 5)},
        s \in {"processed", "FAILED"}}

\* Classifier inputs: filename and uploaded_at (the varying parts of the
\* 4-tuple), status and the upstream flag vary.
ClassifyRecords ==
    {[DefaultRecord EXCEPT !.filename = f, !.uploaded_at = u,
                           !.status = sd[1], !.is_duplicated = sd[2]] :
        f \in {"a.csv", "b.csv"}, u \in {At(4, 0), At(4, 5)},
        sd \in {<<" Processed ", FALSE>>, <<"processed", TRUE>>,
                 <<"FAILED", FALSE>>, <<"Empty", FALSE>>}}

Init ==
    /\ records \in SeqsUpTo(GroupingRecords, MaxRecs)
    /\ InitDedupInputs
    /\ InitOutputs

InitKeeper ==
    /\ records \in SeqsUpTo(KeeperRecords, MaxRecs)
    /\ InitDedupInputs
    /\ InitOutputs

InitClassify ==
    /\ records \in SeqsUpTo(ClassifyRecords, MaxRecs)
    /\ InitDedupInputs
    /\ InitOutputs

\* Empty-detector inputs: entity, rows, status and the weekday (through
\* covered_date) vary; day 4 is a Monday, day 5 a Tuesday.
EmptyRecords ==
    {[DefaultRecord EXCEPT !.entity = e, !.rows = ns[1], !.status = ns[2], !.covered_date = d] :
        e \in {"Shop", "Other"},
        ns \in {<<Some(0), "processed">>, <<Some(5), "Empty">>, <<Some(5), "processed">>},
        d \in {OnDay(4), OnDay(5)}}

\* StatBlock of the CV schema: all six keys, null where unknown.
NullStatBlock == [k \in {"min", "max", "mean", "median", "mode", "stdev"} |-> None]

EmptyFilesBlocks ==
    {EmptyBlock,
     NullStatBlock,
     [NullStatBlock EXCEPT !["min"] = Some(0), !["max"] = Some(0)],
     [NullStatBlock EXCEPT !["min"] = Some(0), !["max"] = Some(2)],
     [NullStatBlock EXCEPT !["min"] = Some(1)],
     [k \in {"min"} |-> Some(0)]}

TuesdayRow == [day |-> "Tue", empty_files |-> [NullStatBlock EXCEPT !["mean"] = Some(1)],
               rows |-> EmptyBlock]

\* CVs for the fallback chain: an entity x weekday table with at most one
\* row per (entity, day), here a row for (Shop, Mon); the weekday-level and
\* the global per-weekday tables with a row for Tue before the row for Mon.
ChainCVs ==
    {[EmptyCV EXCEPT
        !.entity_weekday = ew,
        !.weekday = <<TuesdayRow, [day |-> "Mon", empty_files |-> b4, rows |-> EmptyBlock]>>,
        !.per_weekday = <<[day |-> "Mon", empty_files |-> b3, rows |-> EmptyBlock]>>,
        !.status_percentages = pct] :
        ew \in {<<>>} \cup
               {<<[entity |-> "Other", day |-> "Mon", median_empty |-> Some(1), median_files |-> None],
                  [entity |-> "Shop", day |-> "Mon", median_empty |-> me, median_files |-> None]>> :
                    me \in {None, Some(0), Some(2)}},
        b4 \in EmptyFilesBlocks, b3 \in EmptyFilesBlocks,
        pct \in {EmptyBlock, [k \in {"empty"} |-> Some(0)], [k \in {"empty"} |-> Some(5)]}}

InitChain ==
    /\ pc = "cleaned"
    /\ records \in SeqsUpTo(EmptyRecords, MaxDetRecs)
    /\ cv \in ChainCVs
    /\ exec_day = 4
    /\ last_week_records = <<>>
    /\ InitOutputs

\* Records of a source without CV document: rows, uploaded_at, covered_date
\* and entity vary; day 4 is a Monday.
NoCVRecords ==
    {[DefaultRecord EXCEPT !.entity = e, !.rows = n, !.uploaded_at = u, !.covered_date = d] :
        e \in {"Shop", ""}, n \in {None, Some(0), Some(5)},
        u \in {BadTs, At(4, 23 * 60)}, d \in {NoDate, OnDay(4)}}

InitNoCV ==
    /\ pc = "cleaned"
    /\ records \in SeqsUpTo(NoCVRecords, MaxDetRecs)
    /\ cv = EmptyCV
    /\ exec_day \in {4, 5}
    /\ last_week_records \in {<<>>, <<DefaultRecord>>}
    /\ InitOutputs

Next == DedupRun \/ ClassifyRun

Spec == Init /\ [][Next]_vars

SpecKeeper == InitKeeper /\ [][Next]_vars

SpecClassify == InitClassify /\ [][Next]_vars

NextChain == EmptyRun

SpecChain == InitChain /\ [][NextChain]_vars

\* _run_detectors_for_path: the four detectors of one source
NextDetectors == EmptyRun \/ VolumeRun \/ ScheduleRun \/ MissingRun

SpecNoCV == InitNoCV /\ [][NextDetectors]_vars

\* Records for the escalation: two entities, empty and non-empty files
EscalationRecords ==
    {[DefaultRecord EXCEPT !.entity = e, !.rows = n] :
        e \in {"Shop", "Other"}, n \in {Some(0), Some(5)}}

\* no CV, or a CV that expects empty files of Other on Mondays
EscalationCVs ==
    {EmptyCV,
     [EmptyCV EXCEPT !.entity_weekday =
        <<[entity |-> "Other", day |-> "Mon", median_empty |-> Some(2), median_files |-> None]>>]}

InitEscalation ==
    /\ pc = "cleaned"
    /\ records \in SeqsUpTo(EscalationRecords, MaxEscRecs)
    /\ cv \in EscalationCVs
    /\ exec_day = 4
    /\ last_week_records = <<>>
    /\ InitOutputs

SpecEscalation == InitEscalation /\ [][NextChain]_vars

\* Rows blocks of the volume-characteristics section
RowsBlock(mn, mx, md) ==
    [NullStatBlock EXCEPT !["min"] = mn, !["max"] = mx, !["median"] = md]

\* the per-weekday table: empty, or one row for Monday
PerWeekdayTables ==
    {<<>>} \cup
    {<<[day |-> "Mon", empty_files |-> NullStatBlock, rows |-> b]>> :
        b \in {NullStatBlock,
               RowsBlock(Some(100), Some(200), Some(150)),
               RowsBlock(Some(100), Some(200), None),
               RowsBlock(None, None, Some(150)),
               RowsBlock(Some(2000), Some(5000), Some(3000))}}

VolumeCVs ==
    {[EmptyCV EXCEPT
        !.per_weekday_present = pp, !.overall_present = op,
        !.per_weekday = pw, !.rows_stats = rs, !.normal_95 = n95] :
        pp \in BOOLEAN, op \in BOOLEAN, pw \in PerWeekdayTables,
        rs \in {NullStatBlock,
                RowsBlock(Some(100), Some(200), Some(150)),
                RowsBlock(None, None, Some(150))},
        n95 \in {EmptyBlock, [k \in {"lo", "hi"} |-> IF k = "lo" THEN Some(80) ELSE Some(250)]}}

\* Monday records around the bounds 90 and 220, and one Tuesday record
VolumeRecords ==
    {[DefaultRecord EXCEPT !.rows = n, !.covered_date = OnDay(4)] :
        n \in {None, NotNumeric, Some(0), Some(89), Some(90), Some(150),
               Some(220), Some(221)}}
    \cup {[DefaultRecord EXCEPT !.rows = Some(150), !.covered_date = OnDay(5)]}

InitVolume ==
    /\ pc = "cleaned"
    /\ records \in SeqsUpTo(VolumeRecords, MaxDetRecs)
    /\ cv \in VolumeCVs
    /\ exec_day = 4
    /\ last_week_records = <<>>
    /\ InitOutputs

NextVolume == EmptyRun \/ VolumeRun

SpecVolume == InitVolume /\ [][NextVolume]_vars

\* Schedule rows for Monday: the window is null, well formed with end
\* 09:00, written with blanks around the dash, or has an end that does not
\* parse; the median, mode and mean slots are present or not.
ScheduleRows ==
    {[day |-> "Mon", expected_window_utc |-> w, upload_hour_slot_median_utc |-> md,
      upload_hour_slot_mode_utc |-> mo, upload_hour_slot_mean_utc |-> me,
      upload_lag_days_mode |-> lm] :
        w \in {NoWindow, Window(HM(7, 30), HM(9, 0)), SpacedWindow(HM(7, 30), HM(9, 0)),
               Window(HM(7, 30), HM(24, 0))},
        md \in {NoTime, HM(10, 0)}, mo \in {NoTime, HH(11)}, me \in {BadTime, HM(12, 0)},
        lm \in {None, Some(0), Some(2)}}

ScheduleCVs ==
    {EmptyCV} \cup {[EmptyCV EXCEPT !.upload_schedule_by_day = <<row>>] : row \in ScheduleRows}

\* Monday uploads (day 4) around the thresholds of the cutoffs, one Tuesday
\* upload and uploads without a usable timestamp; the covered date gives
\* lags 0, 1 and 2 to the Monday uploads.
ScheduleRecords ==
    {[DefaultRecord EXCEPT !.uploaded_at = u, !.covered_date = d] :
        u \in {NoTs, BadTs, At(5, 14 * 60)} \cup
              {At(4, m) : m \in {630, 780, 781, 840, 870, 930, 1000}},
        d \in {NoDate, OnDay(4), OnDay(3), OnDay(2)}}

InitSchedule ==
    /\ pc = "cleaned"
    /\ records \in SeqsUpTo(ScheduleRecords, MaxSchedRecs)
    /\ cv \in ScheduleCVs
    /\ exec_day = 4
    /\ last_week_records = <<>>
    /\ InitOutputs

NextSchedule == EmptyRun \/ VolumeRun \/ ScheduleRun

SpecSchedule == InitSchedule /\ [][NextSchedule]_vars

\* Entity x weekday tables for the missing-file detector: rows for Shop
\* (written with blanks) and Other on Monday, or one row for Tuesday
MissingEntityTables ==
    {<<>>, <<[entity |-> "Shop", day |-> "Tue", median_empty |-> None, median_files |-> Some(3)]>>}
    \cup
    {<<[entity |-> " Shop ", day |-> "Mon", median_empty |-> None, median_files |-> ms],
       [entity |-> "Other", day |-> "Mon", median_empty |-> None, median_files |-> mo]>> :
        ms \in {None, Some(0), Some(2)}, mo \in {Some(0), Some(1)}}

MissingCVs ==
    {[EmptyCV EXCEPT !.entity_weekday = ew, !.weekday = wk] :
        ew \in MissingEntityTables,
        wk \in {<<>>} \cup
               {<<[day |-> "Mon", empty_files |-> NullStatBlock,
                   rows |-> RowsBlock(None, None, md)]>> : md \in {Some(5), Some(0)}}}

\* Records of three entities uploaded on the execution day (day 4), the
\* day before, without timestamp or with an unparseable one, and one
\* record without entity
MissingRecords ==
    {[DefaultRecord EXCEPT !.entity = e, !.uploaded_at = u] :
        e \in {"Shop", " Shop ", "Other"}, u \in {At(4, 600), At(3, 600), NoTs, BadTs}}
    \cup {[DefaultRecord EXCEPT !.entity = "", !.uploaded_at = At(4, 600)]}

InitMissing ==
    /\ pc = "cleaned"
    /\ records \in SeqsUpTo(MissingRecords, MaxDetRecs)
    /\ cv \in MissingCVs
    /\ exec_day = 4
    /\ last_week_records \in {<<>>, <<[DefaultRecord EXCEPT !.entity = " Shop "]>>,
                                <<[DefaultRecord EXCEPT !.entity = "Other"]>>}
    /\ InitOutputs

SpecMissing == InitMissing /\ [][NextDetectors]_vars

\* One batch with malformed fields: a well-formed record and records with
\* non-numeric rows, non-numeric file_size, an unparseable uploaded_at or
\* an unparseable covered_date, processed or failed; all share a filename
MalformedRecords ==
    {[DefaultRecord EXCEPT !.status = s] : s \in {"processed", "failed"}} \cup
    {[DefaultRecord EXCEPT !.rows = NotNumeric, !.status = s] : s \in {"processed", "failed"}} \cup
    {[DefaultRecord EXCEPT !.file_size = NotNumeric, !.status = s] : s \in {"processed", "failed"}} \cup
    {[DefaultRecord EXCEPT !.uploaded_at = BadTs, !.status = s] : s \in {"processed", "failed"}} \cup
    {[DefaultRecord EXCEPT !.covered_date = BadDate, !.status = s] : s \in {"processed", "failed"}}

\* a CV with an overall band, a Monday schedule and a Monday entity row
FullCV ==
    [EmptyCV EXCEPT
        !.overall_present = TRUE,
        !.rows_stats = RowsBlock(Some(100), Some(200), Some(150)),
        !.upload_schedule_by_day =
            <<[day |-> "Mon", expected_window_utc |-> Window(HM(7, 30), HM(9, 0)),
               upload_hour_slot_median_utc |-> NoTime, upload_hour_slot_mode_utc |-> NoTime,
               upload_hour_slot_mean_utc |-> NoTime, upload_lag_days_mode |-> None]>>,
        !.entity_weekday =
            <<[entity |-> "Shop", day |-> "Mon", median_empty |-> None, median_files |-> Some(2)]>>]

\* the batch enters the dedup resolver (pc = "loaded") and the detectors
\* (pc = "cleaned")
InitMalformed ==
    /\ pc \in {"loaded", "cleaned"}
    /\ records \in SeqsUpTo(MalformedRecords, MaxDetRecs)
    /\ cv \in {EmptyCV, FullCV}
    /\ exec_day = 4
    /\ last_week_records = <<>>
    /\ InitOutputs

NextComponents ==
    DedupRun \/ ClassifyRun \/ EmptyRun \/ VolumeRun \/ ScheduleRun \/ MissingRun

SpecMalformed == InitMalformed /\ [][NextComponents]_vars

\* Records for the three partitioning detectors: rows absent, non-numeric,
\* zero, below and inside the band of FullCV; upload time unparseable,
\* before and long after the Monday cutoff of FullCV
PartitionRecords ==
    {[DefaultRecord EXCEPT !.rows = r, !.uploaded_at = u] :
        r \in {None, NotNumeric, Some(0), Some(10), Some(150)},
        u \in {BadTs, At(4, 0), At(4, 840)}}

InitPartition ==
    /\ pc = "cleaned"
    /\ records \in SeqsUpTo(PartitionRecords, MaxDetRecs)
    /\ cv \in {EmptyCV, FullCV}
    /\ exec_day = 4
    /\ last_week_records = <<>>
    /\ InitOutputs

SpecPartition == InitPartition /\ [][NextSchedule]_vars

---------------------------------------------------------------------------
(* Orchestrator: the three bounded task pools                              *)
(*                                                                         *)
(* One call of _extract_one_cv (with _process_file_batched inside it), of  *)
(* _process_dataset or of _run_today_detectors_and_aggregate.  The input   *)
(* elements (files, CV ids, cleaned paths) are identified by their         *)
(* position 1..n in the input; call.answers[j] is what the extraction      *)
(* agent returns for batch j, each item named by the file it was inferred  *)
(* for.  A job is "created" (task made, not yet run), "waiting" (queued on *)
(* the semaphore), "running" (inside async with), "done" or "failed".      *)
(* asyncio.Semaphore hands a released permit to the oldest waiter.         *)

MaxFiles == 5

MaxCVs == 5

MaxPaths == 9

MaxExtractFiles == 3

BATCH_SIZE == 20

BATCH_CONCURRENCY == 4

CV_CONCURRENCY == 4

DETECTOR_CONCURRENCY == 8

\* batches = [(start, files_all[start : start + batch_size])
\*            for start in range(0, total, batch_size)]
NumBatches(n, bs) == (n + bs - 1) \div bs

BatchStart(bs, j) == (j - 1) * bs

BatchFiles(n, bs, j) ==
    LET start == BatchStart(bs, j)
        stop == IF start + bs < n THEN start + bs ELSE n
    IN [k \in 1..(stop - start) |-> start + k]

\* the initial value of the semaphore the called function creates
SemLimit(fn) ==
    CASE fn = "_extract_one_cv" -> BATCH_CONCURRENCY
      [] fn = "_process_dataset" -> CV_CONCURRENCY
      [] fn = "_run_today_detectors_and_aggregate" -> DETECTOR_CONCURRENCY
      [] OTHER -> 0

\* the tasks the called function creates: one per batch, per CV, per path
NumJobs(c) ==
    CASE c.fn = "_extract_one_cv" ->
            IF c.has_rules THEN NumBatches(c.n, c.batch_size) ELSE 0
      [] OTHER -> c.n

\* create_task in a list comprehension and gather start the tasks in list
\* order; as_completed over coroutines makes the tasks from a set
StartsInListOrder(fn) == fn # "_process_dataset"

\* a semaphore that is never locked
SemaphoreNeverLocked(value, ws) == FALSE

\* asyncio.Semaphore.locked(): no permit left, or somebody is queued
SemaphoreLocked(value, ws) == value = 0 \/ ws # <<>>

\* the task of job j runs up to "async with sem": it enters the section or
\* queues
Start(j) ==
    /\ j \in DOMAIN job
    /\ job[j] = "created"
    /\ StartsInListOrder(call.fn) => \A i \in 1..(j - 1) : job[i] # "created"
    /\ IF SemaphoreLocked(sem_value, waiters)
       THEN /\ job' = [job EXCEPT ![j] = "waiting"]
            /\ waiters' = Append(waiters, j)
            /\ UNCHANGED sem_value
       ELSE /\ job' = [job EXCEPT ![j] = "running"]
            /\ sem_value' = sem_value - 1
            /\ UNCHANGED waiters
    /\ UNCHANGED <<call, orch_pc, results, anom_files, output, detectorVars>>

\* leaving "async with sem" (by return or by exception): the permit goes to
\* the oldest waiter, or back to the semaphore
Release(j, st) ==
    IF waiters # <<>>
    THEN /\ job' = [job EXCEPT ![j] = st, ![Head(waiters)] = "running"]
         /\ waiters' = Tail(waiters)
         /\ UNCHANGED sem_value
    ELSE /\ job' = [job EXCEPT ![j] = st]
         /\ sem_value' = sem_value + 1
         /\ UNCHANGED waiters

\* run_one returns (start_idx, items); the as_completed loop of
\* _process_file_batched appends it to results in completion order
BatchFinish(j) ==
    /\ call.fn = "_extract_one_cv"
    /\ j \in DOMAIN job
    /\ job[j] = "running"
    /\ Release(j, "done")
    /\ results' = IF orch_pc = "running"
                  THEN Append(results, <<BatchStart(call.batch_size, j), call.answers[j]>>)
                  ELSE results
    /\ UNCHANGED <<call, orch_pc, anom_files, output, detectorVars>>

\* _run_single_batch raises: "await coro" re-raises in the as_completed
\* loop and _process_file_batched, then _extract_one_cv, raise
BatchRaise(j) ==
    /\ call.fn = "_extract_one_cv"
    /\ j \in DOMAIN job
    /\ job[j] = "running"
    /\ Release(j, "failed")
    /\ orch_pc' = "raised"
    /\ UNCHANGED <<call, results, anom_files, output, detectorVars>>

\* results in completion order, not sorted
MergedInCompletionOrder(res) == Flatten([k \in 1..Len(res) |-> res[k][2]])

\* results.sort(key=lambda t: t[0]); merged.extend(items) for each
Merged(res) ==
    LET sorted == SortSeq(res, LAMBDA a, b : a[1] < b[1])
    IN Flatten([k \in 1..Len(sorted) |-> sorted[k][2]])

\* {}: no inferred field
EmptyItem == 0

\* _extract_one_cv after the batches: truncate or pad the inferred items to
\* the number of files, then zip(originals, inferred_items); without CV
\* rules every file is passed through with no inferred field
FullItems(n, merged_items) ==
    LET inferred_items ==
            IF Len(merged_items) > n THEN SubSeq(merged_items, 1, n)
            ELSE merged_items \o [k \in 1..(n - Len(merged_items)) |-> EmptyItem]
    IN [i \in 1..n |-> [filename |-> i, inferred_from |-> inferred_items[i]]]

ExtractReturn ==
    /\ call.fn = "_extract_one_cv"
    /\ orch_pc = "running"
    /\ \A j \in DOMAIN job : job[j] = "done"
    /\ output' = IF call.has_rules
                 THEN [inferred_batch |-> Merged(results),
                       full_items |-> FullItems(call.n, Merged(results))]
                 ELSE [inferred_batch |-> <<>>,
                       full_items |-> FullItems(call.n, <<>>)]
    /\ orch_pc' = "returned"
    /\ UNCHANGED <<call, job, sem_value, waiters, results, anom_files, detectorVars>>

\* per_cv returns: the anomalies file of the CV was written (when
\* compute_anomalies) and the result is appended to results
CVFinish(j) ==
    /\ call.fn = "_process_dataset"
    /\ j \in DOMAIN job
    /\ job[j] = "running"
    /\ Release(j, "done")
    /\ results' = Append(results, j)
    /\ anom_files' = IF call.compute_anomalies THEN anom_files \cup {j} ELSE anom_files
    /\ UNCHANGED <<call, orch_pc, output, detectorVars>>

\* the exception of a per_cv job is propagated to the caller
DatasetRaisesOnFailure(pcv) == "raised"

\* try: results.append(await coro) / except Exception: print(...)
DatasetOnFailure(pcv) == pcv

\* per_cv raises (extraction, dedup or a write fails) before it writes its
\* anomalies file
CVFail(j) ==
    /\ call.fn = "_process_dataset"
    /\ j \in DOMAIN job
    /\ job[j] = "running"
    /\ Release(j, "failed")
    /\ orch_pc' = DatasetOnFailure(orch_pc)
    /\ UNCHANGED <<call, results, anom_files, output, detectorVars>>

\* the aggregate: the anomalies files that exist, in files_map order
Aggregate(n, files) == SelectSeq([i \in 1..n |-> i], LAMBDA i : i \in files)

DatasetReturn ==
    /\ call.fn = "_process_dataset"
    /\ orch_pc = "running"
    /\ \A j \in DOMAIN job : job[j] \in {"done", "failed"}
    /\ output' = [per_cv |-> Range(results),
                  all_anoms |-> IF call.compute_anomalies
                                THEN Aggregate(call.n, anom_files) ELSE <<>>]
    /\ orch_pc' = "returned"
    /\ UNCHANGED <<call, job, sem_value, waiters, results, anom_files, detectorVars>>

\* _one returns the anomalies of its path
BundleFinish(j) ==
    /\ call.fn = "_run_today_detectors_and_aggregate"
    /\ j \in DOMAIN job
    /\ job[j] = "running"
    /\ Release(j, "done")
    /\ UNCHANGED <<call, orch_pc, results, anom_files, output, detectorVars>>

\* _one raises: gather (return_exceptions is False) raises in the caller,
\* the other tasks go on
BundleRaise(j) ==
    /\ call.fn = "_run_today_detectors_and_aggregate"
    /\ j \in DOMAIN job
    /\ job[j] = "running"
    /\ Release(j, "failed")
    /\ orch_pc' = "raised"
    /\ UNCHANGED <<call, results, anom_files, output, detectorVars>>

\* gather returns the bundles in the order of paths
DetectorsReturn ==
    /\ call.fn = "_run_today_detectors_and_aggregate"
    /\ orch_pc = "running"
    /\ \A j \in DOMAIN job : job[j] = "done"
    /\ output' = [merged |-> [i \in 1..call.n |-> i]]
    /\ orch_pc' = "returned"
    /\ UNCHANGED <<call, job, sem_value, waiters, results, anom_files, detectorVars>>

\* the detectors are not part of an orchestrator call
DetectorsIdle ==
    /\ pc = "idle"
    /\ records = <<>>
    /\ cv = EmptyCV
    /\ exec_day = 4
    /\ last_week_records = <<>>
    /\ final = <<>> /\ removed = <<>> /\ harmless = <<>>
    /\ anomalies = <<>> /\ ok = <<>>
    /\ empty_res = NoResult /\ volume_res = NoResult
    /\ schedule_res = NoResult /\ missing_res = NoResult

\* the state when the called function has created its semaphore and tasks
InitCall(c) ==
    /\ call = c
    /\ orch_pc = "running"
    /\ job = [j \in 1..NumJobs(c) |-> "created"]
    /\ sem_value = SemLimit(c.fn)
    /\ waiters = <<>>
    /\ results = <<>>
    /\ anom_files = {}
    /\ output = <<>>
    /\ DetectorsIdle

\* the answer with one item per file of the batch, in order
ExactAnswers(n, bs) == [j \in 1..NumBatches(n, bs) |-> BatchFiles(n, bs, j)]

\* what the agent can return for a batch: the items of its files; nothing
\* (the {"inferred_batch": []} fallback); one item missing; one item twice
BatchOutcomes(fs) ==
    {fs, <<>>} \cup
    {SubSeq(fs, 1, k - 1) \o SubSeq(fs, k + 1, Len(fs)) : k \in 1..Len(fs)} \cup
    {SubSeq(fs, 1, k) \o SubSeq(fs, k, Len(fs)) : k \in 1..Len(fs)}

AnyAnswers(n, bs) ==
    LET nb == NumBatches(n, bs)
        all == UNION {BatchOutcomes(BatchFiles(n, bs, j)) : j \in 1..nb}
    IN {a \in [1..nb -> all] : \A j \in 1..nb : a[j] \in BatchOutcomes(BatchFiles(n, bs, j))}

ExtractCall(n, bs, rules, ans) ==
    [fn |-> "_extract_one_cv", n |-> n, batch_size |-> bs, has_rules |-> rules,
     answers |-> ans, compute_anomalies |-> FALSE]

DatasetCall(n, ca) ==
    [fn |-> "_process_dataset", n |-> n, batch_size |-> 0, has_rules |-> FALSE,
     answers |-> <<>>, compute_anomalies |-> ca]

DetectorsCall(n) ==
    [fn |-> "_run_today_detectors_and_aggregate", n |-> n, batch_size |-> 0,
     has_rules |-> FALSE, answers |-> <<>>, compute_anomalies |-> FALSE]

\* batch_size is a parameter of _process_file_batched (BATCH_SIZE from
\* _extract_one_cv, 40 by default in process_file_batched)
BatchSizes == {1, 2, BATCH_SIZE}

FanOutCalls ==
    {ExtractCall(n, bs, TRUE, ExactAnswers(n, bs)) : n \in 0..MaxFiles, bs \in BatchSizes} \cup
    {DatasetCall(n, ca) : n \in 0..MaxCVs, ca \in BOOLEAN} \cup
    {DetectorsCall(n) : n \in 1..MaxPaths}

InitFanOut == \E c \in FanOutCalls : InitCall(c)

NextFanOut ==
    \/ \E j \in DOMAIN job : Start(j)
    \/ \E j \in DOMAIN job : BatchFinish(j)
    \/ \E j \in DOMAIN job : BatchRaise(j)
    \/ ExtractReturn
    \/ \E j \in DOMAIN job : CVFinish(j)
    \/ \E j \in DOMAIN job : CVFail(j)
    \/ DatasetReturn
    \/ \E j \in DOMAIN job : BundleFinish(j)
    \/ \E j \in DOMAIN job : BundleRaise(j)
    \/ DetectorsReturn

SpecFanOut == InitFanOut /\ [][NextFanOut]_vars

\* the event loop runs every task that is ready, and every job that is
\* inside its section finishes: no step that is possible is put off for
\* ever
FairFanOut == WF_vars(NextFanOut)

FairSpecFanOut == SpecFanOut /\ FairFanOut

ExtractCalls ==
    UNION {{ExtractCall(nb[1], nb[2], TRUE, ans) : ans \in AnyAnswers(nb[1], nb[2])} :
              nb \in (0..MaxExtractFiles) \X BatchSizes} \cup
    {ExtractCall(n, BATCH_SIZE, FALSE, <<>>) : n \in 0..MaxExtractFiles}

InitExtract == \E c \in ExtractCalls : InitCall(c)

NextExtract ==
    \/ \E j \in DOMAIN job : Start(j)
    \/ \E j \in DOMAIN job : BatchFinish(j)
    \/ \E j \in DOMAIN job : BatchRaise(j)
    \/ ExtractReturn

SpecExtract == InitExtract /\ [][NextExtract]_vars

\* Schedule rows for late cutoffs: Monday's window ends at 19:58, 19:59,
\* 20:00 or 23:00; Tuesday has no row or a window that ends at 01:00
CutoffRow(d, end) ==
    [day |-> d, expected_window_utc |-> Window(HM(7, 30), end),
     upload_hour_slot_median_utc |-> NoTime, upload_hour_slot_mode_utc |-> NoTime,
     upload_hour_slot_mean_utc |-> NoTime, upload_lag_days_mode |-> None]

LateDayCVs ==
    {[EmptyCV EXCEPT !.upload_schedule_by_day = <<CutoffRow("Mon", e)>> \o tue] :
        e \in {HM(19, 58), HM(19, 59), HM(20, 0), HM(23, 0)},
        tue \in {<<>>, <<CutoffRow("Tue", HM(1, 0))>>}}

\* uploads late on Monday (day 4) up to 23:59 and early on Tuesday
LateDayRecords ==
    {[DefaultRecord EXCEPT !.uploaded_at = u, !.covered_date = d] :
        u \in {At(4, 20 * 60), At(4, 1438), At(4, 1439), At(5, 0), At(5, 2 * 60), At(5, 6 * 60)},
        d \in {NoDate, OnDay(4)}}

InitLateDay ==
    /\ pc = "cleaned"
    /\ records \in SeqsUpTo(LateDayRecords, MaxDetRecs)
    /\ cv \in LateDayCVs
    /\ exec_day = 4
    /\ last_week_records = <<>>
    /\ InitOutputs

SpecLateDay == InitLateDay /\ [][NextSchedule]_vars

---------------------------------------------------------------------------
(* Properties of the deduplication resolver *)

IsProcessedRec(r) == StripLower(r.status) = "processed"

Occ(s, i) == Cardinality({j \in 1..Len(s) : s[j] = i})

OccIdx(s, i) == Cardinality({j \in 1..Len(s) : s[j].idx = i})

Groups == dup_groups(records)

GroupsOf(groups, i) == {j \in 1..Len(groups) : i \in Range(groups[j])}

ProcessedIn(g) == {i \in Range(g) : IsProcessedRec(records[i])}

\* C1: every record index lands in exactly one outcome -- final as a
\* non-duplicate, or keeper / removed / harmless as a member of exactly one
\* duplicate group -- and len(final) = #non-duplicates + #groups that have a
\* processed member.
C1_Partition ==
    pc = "deduped" =>
      LET groups == Groups
      IN /\ \A i \in 1..Len(records) :
               /\ Occ(final, i) + OccIdx(removed, i) + Occ(harmless, i) = 1
               /\ Cardinality(GroupsOf(groups, i)) <= 1
               /\ GroupsOf(groups, i) = {} => Occ(final, i) = 1
         /\ Len(final) =
               Cardinality({i \in 1..Len(records) : GroupsOf(groups, i) = {}})
               + Cardinality({j \in 1..Len(groups) : ProcessedIn(groups[j]) # {}})

C1_Witness ==
    /\ pc = "deduped"
    /\ Len(harmless) > 0
    /\ \E i \in 1..Len(records) : GroupsOf(Groups, i) = {}
    /\ Len(Pass2Groups(records)) > 0

IndexPerms(n) == {f \in [1..n -> 1..n] : \A i, j \in 1..n : f[i] = f[j] => i = j}

Permuted(recs, f) == [i \in 1..Len(recs) |-> recs[f[i]]]

\* C2: in a group with more than one processed member the keeper -- the one
\* member of the group in final -- is a processed member whose (rows,
\* file_size, uploaded_at) key no processed member exceeds; when that maximum
\* is unique the resolver run on any reordering of the list keeps the same
\* record; all other members are in removed with the reason
\* multi_processed (keeper=<keeper filename>).
C2_Keeper ==
    pc = "deduped" =>
      \A j \in 1..Len(Groups) :
        LET g == Groups[j]
            inFinal == Range(g) \cap Range(final)
        IN Cardinality(ProcessedIn(g)) > 1 =>
             /\ Cardinality(inFinal) = 1
             /\ \A k \in inFinal :
                   /\ k \in ProcessedIn(g)
                   /\ Occ(final, k) = 1
                   /\ \A m \in ProcessedIn(g) :
                         ~TupleGreater(KeeperKey(records[m]), KeeperKey(records[k]))
                   /\ \A m \in Range(g) \ {k} :
                         /\ OccIdx(removed, m) = 1
                         /\ Occ(harmless, m) = 0
                         /\ \A q \in 1..Len(removed) : removed[q].idx = m =>
                               removed[q].dedupe_reason
                                 = [kind |-> "multi_processed", keeper |-> records[k].filename]
                   /\ (\A m \in ProcessedIn(g) \ {k} :
                          KeeperKey(records[m]) # KeeperKey(records[k]))
                       => \A f \in IndexPerms(Len(records)) :
                            {f[i] : i \in Range(DedupFinal(Permuted(records, f)))} \cap Range(g)
                              = {k}

C2_Witness ==
    /\ pc = "deduped"
    /\ Len(records) = 3
    /\ \E j \in 1..Len(Groups) :
         LET g == Groups[j]
         IN /\ Cardinality(ProcessedIn(g)) = 2
            /\ \E k \in ProcessedIn(g) :
                  /\ k \in Range(final)
                  /\ \E m \in ProcessedIn(g) : m < k /\ KeeperKey(records[m]) # KeeperKey(records[k])
                  /\ \E m \in Range(g) \ ProcessedIn(g) : OccIdx(removed, m) = 1

\* C3: in a group without a processed member no keeper is selected: every
\* member is in removed with reason no_processed (no keeper selected) and
\* none is in final or harmless.
C3_NoProcessed ==
    pc = "deduped" =>
      \A j \in 1..Len(Groups) :
        LET g == Groups[j]
        IN ProcessedIn(g) = {} =>
             \A i \in Range(g) :
               /\ Occ(final, i) = 0
               /\ Occ(harmless, i) = 0
               /\ OccIdx(removed, i) = 1
               /\ \A q \in 1..Len(removed) : removed[q].idx = i =>
                     removed[q].dedupe_reason
                       = [kind |-> "no_processed", keeper |-> "no keeper selected"]

C3_Witness ==
    /\ pc = "deduped"
    /\ \E j \in 1..Len(Groups) :
          /\ ProcessedIn(Groups[j]) = {}
          /\ \A i \in Range(Groups[j]) : OccIdx(removed, i) = 1

\* C4: no two records of final share a filename, and no two share a
\* (non-empty cleaned_filename, batch or "") pair.
C4_OnePerIdentity ==
    pc = "deduped" =>
      \A p, q \in 1..Len(final) :
        p # q =>
          /\ records[final[p]].filename # records[final[q]].filename
          /\ (records[final[p]].cleaned_filename # ""
                 /\ records[final[q]].cleaned_filename # "")
              => <<records[final[p]].cleaned_filename, BatchOrEmpty(records[final[p]])>>
                   # <<records[final[q]].cleaned_filename, BatchOrEmpty(records[final[q]])>>

---------------------------------------------------------------------------
(* Properties of the status / duplicate-flag classifier *)

AnomaliesOf(i) == {j \in 1..Len(anomalies) : anomalies[j].src = i}

MatchedToRemoved(i) ==
    \E q \in 1..Len(removed) :
        /\ records[removed[q].idx].filename = records[i].filename
        /\ records[removed[q].idx].cleaned_filename = records[i].cleaned_filename
        /\ records[removed[q].idx].batch = records[i].batch
        /\ records[removed[q].idx].uploaded_at = records[i].uploaded_at

\* C5: the anomalies list and the ok list together hold every original
\* record exactly once.
C5_CoverOnce ==
    pc = "classified" =>
      \A i \in 1..Len(records) :
        Cardinality(AnomaliesOf(i)) + Occ(ok, i) = 1

\* C6: no record of harmless appears in the anomalies list.
C6_HarmlessNotReported ==
    pc = "classified" =>
      \A h \in 1..Len(harmless) : AnomaliesOf(harmless[h]) = {}

\* C7: decision table of the classifier.  Every removed record is a
\* duplicate anomaly, urgent iff its reason is multi_processed; an original
\* record not matched to removed is a status_failure when its normalised
\* status is not processed (urgent iff failed), else a duplicate with reason
\* flagged_is_duplicated and severity attention when is_duplicated, else ok.
C7_DecisionTable ==
    pc = "classified" =>
      /\ \A q \in 1..Len(removed) :
            /\ anomalies[q].src = removed[q].idx
            /\ anomalies[q].incident_type = "duplicate"
            /\ anomalies[q].severity =
                  IF removed[q].dedupe_reason.kind = "multi_processed"
                  THEN "urgent" ELSE "attention"
      /\ \A i \in 1..Len(records) :
            ~MatchedToRemoved(i) =>
              LET st == StripLower(records[i].status)
                  mine == {j \in AnomaliesOf(i) : j > Len(removed)}
              IN IF st # "processed"
                 THEN /\ Cardinality(mine) = 1
                      /\ Occ(ok, i) = 0
                      /\ \A j \in mine :
                            /\ anomalies[j].incident_type = "status_failure"
                            /\ anomalies[j].severity =
                                  IF st = "failed" THEN "urgent" ELSE "attention"
                 ELSE IF records[i].is_duplicated
                 THEN /\ Cardinality(mine) = 1
                      /\ Occ(ok, i) = 0
                      /\ \A j \in mine :
                            /\ anomalies[j].incident_type = "duplicate"
                            /\ anomalies[j].incident_reason = "flagged_is_duplicated"
                            /\ anomalies[j].severity = "attention"
                 ELSE /\ mine = {}
                      /\ Occ(ok, i) = 1

C7_Witness ==
    /\ pc = "classified"
    /\ \E q \in 1..Len(removed) : removed[q].dedupe_reason.kind = "multi_processed"
    /\ \E i \in 1..Len(records) :
          /\ ~MatchedToRemoved(i)
          /\ StripLower(records[i].status) = "failed"
          /\ \E j \in AnomaliesOf(i) : anomalies[j].severity = "urgent"

---------------------------------------------------------------------------
(* Properties of the unexpected-empty detector *)

EmptyFlagged(i) == \E j \in 1..Len(empty_res.anomalies) : empty_res.anomalies[j].src = i

EmptyOk(i) == \E j \in 1..Len(empty_res.ok) : empty_res.ok[j] = i

RecWeekday(i) == _weekday_for_record(records[i], folder_weekday)

\* The rows of the entity x weekday table for record i
EntityRowsOf(i) ==
    {j \in 1..Len(cv.entity_weekday) :
        /\ cv.entity_weekday[j].entity = records[i].entity
        /\ cv.entity_weekday[j].day = RecWeekday(i)}

Level2(i) == _cv_expected_zero_weekday_section4(cv, RecWeekday(i))

Level3(i) == _cv_expected_zero_global_weekday(cv, RecWeekday(i))

Level4 == _cv_global_empty_expected_section2(cv)

IsCandidate(i) == records[i].rows = <<0>> \/ StripLower(records[i].status) \in {"empty", "no_data"}

\* C9: the chain stops at the first answer that is not unknown.  With an
\* entity x weekday row for the record's (entity, weekday) whose
\* median_empty is not null, the row alone decides (> 0: not flagged,
\* otherwise flagged unexpected_empty) whatever the lower levels say; a
\* lower level decides only when all levels above it are unknown.
C9_ShortCircuit ==
    pc = "empty_done" =>
      \A i \in 1..Len(records) :
        IsCandidate(i) =>
          /\ EmptyFlagged(i) # EmptyOk(i)
          /\ \A j \in EntityRowsOf(i) :
                cv.entity_weekday[j].median_empty # None =>
                  (EmptyFlagged(i) <=> ~(cv.entity_weekday[j].median_empty[1] > 0))
          /\ (\A j \in EntityRowsOf(i) : cv.entity_weekday[j].median_empty = None) =>
                IF Level2(i) # "None" THEN EmptyFlagged(i) <=> (Level2(i) = "False")
                ELSE IF Level3(i) # "None" THEN EmptyFlagged(i) <=> (Level3(i) = "False")
                ELSE IF Level4 # "None" THEN EmptyFlagged(i) <=> (Level4 = "False")
                ELSE EmptyFlagged(i)

\* an entity row with median_empty = 0 flags the record although the
\* weekday level and the status percentages say empties are expected
C9_Witness ==
    /\ pc = "empty_done"
    /\ \E i \in 1..Len(records) :
          /\ IsCandidate(i)
          /\ \E j \in EntityRowsOf(i) : cv.entity_weekday[j].median_empty = <<0>>
          /\ Level2(i) = "True"
          /\ Level4 = "True"
          /\ EmptyFlagged(i)

\* The rule "any of keys present and > 0: expected; else some of keys
\* present: not expected; else unknown" for a block b.
BlockRule(b, keys) ==
    IF \E k \in keys \cap DOMAIN b : b[k] # None /\ b[k][1] > 0 THEN "True"
    ELSE IF keys \cap DOMAIN b # {} THEN "False"
    ELSE "None"

FiveKeys == {"min", "mean", "median", "mode", "max"}

FourKeys == {"mean", "median", "mode", "max"}

BlockOfDay(rows, w) ==
    LET j == FirstRow(rows, LAMBDA row : row.day = w)
    IN IF j = 0 THEN EmptyBlock ELSE rows[j].empty_files

\* C10 as stated: step 3 (global per-weekday block) and step 2
\* (weekday-level block) follow the same rule over {min, mean, median, mode,
\* max} and return the same answer for the same block.
C10_SameRule ==
    pc = "empty_done" =>
      \A w \in Range(DAY_NAMES) :
        /\ _cv_expected_zero_weekday_section4(cv, w) = BlockRule(BlockOfDay(cv.weekday, w), FiveKeys)
        /\ _cv_expected_zero_global_weekday(cv, w) = BlockRule(BlockOfDay(cv.per_weekday, w), FiveKeys)
        /\ BlockOfDay(cv.weekday, w) = BlockOfDay(cv.per_weekday, w) =>
              _cv_expected_zero_weekday_section4(cv, w) = _cv_expected_zero_global_weekday(cv, w)

\* C10 amended: step 3 follows the rule of step 2 over the keys {mean,
\* median, mode, max} only (min is not consulted); for the same block the
\* two steps agree when the block has no min key, or when its min is not
\* > 0 and it holds one of the four other keys.  A candidate whose steps 1
\* and 2 are unknown and whose global block holds one of the four keys is
\* flagged iff none of the four is > 0.
C10_GlobalRule ==
    pc = "empty_done" =>
      /\ \A w \in Range(DAY_NAMES) :
            LET b4 == BlockOfDay(cv.weekday, w)
                b3 == BlockOfDay(cv.per_weekday, w)
            IN /\ _cv_expected_zero_weekday_section4(cv, w) = BlockRule(b4, FiveKeys)
               /\ _cv_expected_zero_global_weekday(cv, w) = BlockRule(b3, FourKeys)
               /\ (/\ b4 = b3
                   /\ \/ "min" \notin DOMAIN b3
                      \/ /\ ~(b3["min"] # None /\ b3["min"][1] > 0)
                         /\ FourKeys \cap DOMAIN b3 # {})
                  => _cv_expected_zero_weekday_section4(cv, w)
                       = _cv_expected_zero_global_weekday(cv, w)
      /\ \A i \in 1..Len(records) :
            (/\ IsCandidate(i)
             /\ \A j \in EntityRowsOf(i) : cv.entity_weekday[j].median_empty = None
             /\ BlockRule(BlockOfDay(cv.weekday, RecWeekday(i)), FiveKeys) = "None"
             /\ FourKeys \cap DOMAIN BlockOfDay(cv.per_weekday, RecWeekday(i)) # {})
            => (EmptyFlagged(i) <=>
                  ~\E k \in FourKeys \cap DOMAIN BlockOfDay(cv.per_weekday, RecWeekday(i)) :
                      /\ BlockOfDay(cv.per_weekday, RecWeekday(i))[k] # None
                      /\ BlockOfDay(cv.per_weekday, RecWeekday(i))[k][1] > 0)

\* a candidate decided by step 3 on a block whose only positive key is min:
\* flagged, although the status percentages say empties are expected
C10_Witness ==
    /\ pc = "empty_done"
    /\ \E i \in 1..Len(records) :
          /\ IsCandidate(i)
          /\ EntityRowsOf(i) = {}
          /\ BlockOfDay(cv.weekday, RecWeekday(i)) = EmptyBlock
          /\ BlockOfDay(cv.per_weekday, RecWeekday(i)) = [NullStatBlock EXCEPT !["min"] = <<1>>]
          /\ Level4 = "True"
          /\ EmptyFlagged(i)

---------------------------------------------------------------------------
(* Properties of the detector bundle *)

\* C8: without a CV document (the CV is the empty mapping) no detector
\* flags anything: the unexpected-empty, volume, late-upload and missing
\* detectors all finish with an empty anomalies list.
C8_NoCVNoFlags ==
    pc = "detected" =>
      /\ empty_res.anomalies = <<>>
      /\ volume_res.anomalies = <<>>
      /\ schedule_res.anomalies = <<>>
      /\ missing_res.anomalies = <<>>

---------------------------------------------------------------------------
(* Properties of the severity escalation *)

\* the unexpected_empty anomalies reported for the entity of anomaly j
SameEntityAnomalies(j) ==
    {k \in 1..Len(empty_res.anomalies) :
        records[empty_res.anomalies[k].src].entity = records[empty_res.anomalies[j].src].entity}

\* C11: after the run every unexpected_empty anomaly of an entity with more
\* than 3 such anomalies has severity urgent, and every anomaly of an entity
\* with 3 or fewer has severity attention.
C11_Escalation ==
    pc = "empty_done" =>
      \A j \in 1..Len(empty_res.anomalies) :
        /\ empty_res.anomalies[j].incident_type = "unexpected_empty"
        /\ empty_res.anomalies[j].severity =
              IF Cardinality(SameEntityAnomalies(j)) > 3 THEN "urgent" ELSE "attention"

\* an entity with exactly 4 anomalies, all urgent
C11_Witness ==
    /\ pc = "empty_done"
    /\ Len(empty_res.anomalies) = 4
    /\ \A j \in 1..4 :
          /\ Cardinality(SameEntityAnomalies(j)) = 4
          /\ empty_res.anomalies[j].severity = "urgent"

---------------------------------------------------------------------------
(* Properties of the volume-band detector *)

VolumeFlagged(i) == \E j \in 1..Len(volume_res.anomalies) : volume_res.anomalies[j].src = i

VolumeOk(i) == \E j \in 1..Len(volume_res.ok) : volume_res.ok[j] = i

\* the anomalies reported for record i
VolumeAnomaliesOf(i) ==
    {j \in 1..Len(volume_res.anomalies) : volume_res.anomalies[j].src = i}

HasRows(i) == Len(records[i].rows) = 1 /\ records[i].rows[1] > 0

\* the rows of the per-weekday table for the weekday of record i
PerWeekdayRowsOf(i) ==
    {j \in 1..Len(cv.per_weekday) : cv.per_weekday[j].day = RecWeekday(i)}

HasMinMax(b) ==
    /\ {"min", "max"} \subseteq DOMAIN b
    /\ b["min"] # None /\ b["max"] # None /\ b["max"][1] > 0

\* C12: when the band comes from the overall rows_stats block with min and
\* max (the per-weekday block is not present or has no row for the record's
\* weekday), a record with rows > 0 is flagged volume_anomaly iff
\* rows < 0.9 * min or rows > 1.1 * max, a record on a bound is not flagged,
\* and the anomaly has severity attention and carries lo = 0.9 * min,
\* hi = 1.1 * max and the center.
C12_OverallBand ==
    pc = "volume_done" =>
      \A i \in 1..Len(records) :
        (/\ HasRows(i)
         /\ cv.overall_present
         /\ HasMinMax(cv.rows_stats)
         /\ ~cv.per_weekday_present \/ PerWeekdayRowsOf(i) = {})
        => /\ VolumeFlagged(i) <=>
                 \/ 10 * records[i].rows[1] < 9 * cv.rows_stats["min"][1]
                 \/ 10 * records[i].rows[1] > 11 * cv.rows_stats["max"][1]
           /\ VolumeFlagged(i) # VolumeOk(i)
           /\ \A j \in VolumeAnomaliesOf(i) :
                 /\ volume_res.anomalies[j].incident_type = "volume_anomaly"
                 /\ volume_res.anomalies[j].severity = "attention"
                 /\ volume_res.anomalies[j].expected_lo = 9 * cv.rows_stats["min"][1]
                 /\ volume_res.anomalies[j].expected_hi = 11 * cv.rows_stats["max"][1]
                 /\ volume_res.anomalies[j].expected_center =
                       IF cv.rows_stats["median"] # None
                       THEN 10 * cv.rows_stats["median"][1]
                       ELSE 5 * (cv.rows_stats["min"][1] + cv.rows_stats["max"][1])

\* min = 100, max = 200: rows = 89 is flagged and rows = 220, on the upper
\* bound, is not
C12_Witness ==
    /\ pc = "volume_done"
    /\ cv.overall_present /\ ~cv.per_weekday_present
    /\ cv.rows_stats = RowsBlock(Some(100), Some(200), Some(150))
    /\ Len(records) = 2
    /\ records[1].rows = Some(89) /\ VolumeFlagged(1)
    /\ records[2].rows = Some(220) /\ VolumeOk(2) /\ ~VolumeFlagged(2)

\* records whose rows is a number greater than 0
PositiveRows == {i \in 1..Len(records) : HasRows(i)}

\* C13: a record whose rows is 0, null or not numeric is never flagged by
\* the volume detector, whatever the CV: it is passed to ok and is not
\* counted as judged.
C13_ZeroRowsNeverFlagged ==
    pc = "volume_done" =>
      /\ \A i \in 1..Len(records) :
            ~HasRows(i) => VolumeOk(i) /\ ~VolumeFlagged(i)
      /\ volume_res.stats.candidates_judged <= Cardinality(PositiveRows)
      /\ \A j \in 1..Len(volume_res.anomalies) : volume_res.anomalies[j].src \in PositiveRows

\* a CV with a band, a flagged record, and next to it a record with rows 0
\* (or null, or not numeric) that is passed to ok, with one record judged
C13_Witness ==
    /\ pc = "volume_done"
    /\ Len(records) = 2
    /\ records[1].rows \in {None, NotNumeric, Some(0)}
    /\ VolumeOk(1) /\ ~VolumeFlagged(1)
    /\ VolumeFlagged(2)
    /\ volume_res.stats.candidates_judged = 1

\* today's median of nonzero row counts, doubled
TodayMedian2 == _current_nonzero_rows_median2(records)

\* the median of the per-weekday rows block for the weekday of record i
\* (None without a row or without a median)
WeekdayMedianOf(i) == _weekday_row_median_from_section3(cv, RecWeekday(i))

\* the verdict and annotation of record i agree with the band b (NoBand:
\* not judged, passed to ok)
JudgedAgainst(i, b) ==
    /\ VolumeFlagged(i) # VolumeOk(i)
    /\ VolumeFlagged(i) <=>
          /\ b # NoBand
          /\ 10 * records[i].rows[1] < b.lo10 \/ 10 * records[i].rows[1] > b.hi10
    /\ \A j \in VolumeAnomaliesOf(i) :
          /\ volume_res.anomalies[j].expected_lo = b.lo10
          /\ volume_res.anomalies[j].expected_hi = b.hi10
          /\ volume_res.anomalies[j].expected_center = b.center10

\* C14: with per-weekday presence, when the per-weekday rows median of the
\* record's weekday is at least 20 times today's median of nonzero row
\* counts the record is judged against the band of the overall block (or
\* not judged if the overall block yields none); when the ratio is below
\* 20 it is judged against the per-weekday band.
C14_DailyTotalGuard ==
    pc = "volume_done" =>
      \A i \in 1..Len(records) :
        (HasRows(i) /\ cv.per_weekday_present /\ WeekdayMedianOf(i) # None) =>
          IF 2 * WeekdayMedianOf(i)[1] >= 20 * TodayMedian2[1]
          THEN JudgedAgainst(i, OverallBand(cv))
          ELSE JudgedAgainst(i, PerWeekdayBand(cv, RecWeekday(i)))

\* the per-weekday median 3000 is exactly 20 times today's median 150: the
\* record with rows 150 lies far below the per-weekday band and is judged
\* against the overall band instead, inside which it lies
C14_Witness ==
    /\ pc = "volume_done"
    /\ cv.per_weekday_present /\ cv.overall_present
    /\ cv.rows_stats = RowsBlock(Some(100), Some(200), Some(150))
    /\ records = <<[DefaultRecord EXCEPT !.rows = Some(150), !.covered_date = OnDay(4)]>>
    /\ WeekdayMedianOf(1) = Some(3000)
    /\ TodayMedian2 = Some(300)
    /\ VolumeOk(1) /\ ~VolumeFlagged(1)

\* C15: with per-weekday presence, when the row stats of the record's
\* weekday include min and max but no median, a record with rows > 0 is
\* judged against the per-weekday band [0.9 * min, 1.1 * max] centered at
\* the midpoint of min and max, not against the overall block.
C15_NoMedianBand ==
    pc = "volume_done" =>
      \A i \in 1..Len(records) :
        \A j \in PerWeekdayRowsOf(i) :
          (/\ HasRows(i)
           /\ cv.per_weekday_present
           /\ HasMinMax(cv.per_weekday[j].rows)
           /\ cv.per_weekday[j].rows["median"] = None)
          => JudgedAgainst(i, [kind |-> "minmax",
                               lo10 |-> 9 * cv.per_weekday[j].rows["min"][1],
                               hi10 |-> 11 * cv.per_weekday[j].rows["max"][1],
                               center10 |-> 5 * (cv.per_weekday[j].rows["min"][1]
                                                 + cv.per_weekday[j].rows["max"][1])])

\* the band of a rows block by its min and max alone
MinMaxBandOf(b) ==
    [kind |-> "minmax", lo10 |-> 9 * b["min"][1], hi10 |-> 11 * b["max"][1],
     center10 |-> IF b["median"] # None THEN 10 * b["median"][1]
                  ELSE 5 * (b["min"][1] + b["max"][1])]

\* the resolution from the overall block as the claim lists it: rows_stats
\* min/max, then [0.5 * median, 2 * median], then normal_95, then none
OverallBandInOrder ==
    IF ~cv.overall_present THEN NoBand
    ELSE IF HasMinMax(cv.rows_stats) THEN MinMaxBandOf(cv.rows_stats)
    ELSE IF cv.rows_stats["median"] # None /\ cv.rows_stats["median"][1] > 0
    THEN [kind |-> "median", lo10 |-> 5 * cv.rows_stats["median"][1],
          hi10 |-> 20 * cv.rows_stats["median"][1],
          center10 |-> 10 * cv.rows_stats["median"][1]]
    ELSE IF DOMAIN cv.normal_95 = {"lo", "hi"}
    THEN [kind |-> "normal_95", lo10 |-> 10 * cv.normal_95["lo"][1],
          hi10 |-> 10 * cv.normal_95["hi"][1],
          center10 |-> IF cv.rows_stats["median"] # None THEN 10 * cv.rows_stats["median"][1]
                       ELSE 5 * (cv.normal_95["lo"][1] + cv.normal_95["hi"][1])]
    ELSE NoBand

\* C16: the per-weekday block supplies the band only when its row stats
\* include both min and max; a record (rows > 0) whose weekday's row stats
\* lack min or max is judged against the band resolved from the overall
\* block in the order rows_stats min/max, symmetric band around
\* rows_stats.median, normal_95, and passes to ok if none exists.
C16_ResolutionOrder ==
    pc = "volume_done" =>
      \A i \in 1..Len(records) :
        (/\ HasRows(i)
         /\ \A j \in PerWeekdayRowsOf(i) : ~HasMinMax(cv.per_weekday[j].rows))
        => JudgedAgainst(i, OverallBandInOrder)

---------------------------------------------------------------------------
(* Properties of the late-upload detector *)

ScheduleFlagged(i) == \E j \in 1..Len(schedule_res.anomalies) : schedule_res.anomalies[j].src = i

ScheduleOk(i) == \E j \in 1..Len(schedule_res.ok) : schedule_res.ok[j] = i

HasUploadTime(i) == records[i].uploaded_at.k = "ts"

\* the schedule rows for the weekday of the upload of record i
ScheduleRowsOf(i) ==
    {j \in 1..Len(cv.upload_schedule_by_day) :
        cv.upload_schedule_by_day[j].day = WeekdayOfDay(records[i].uploaded_at.day)}

\* upload date minus covered date, when both are known
LagKnown(i) == HasUploadTime(i) /\ records[i].covered_date.k = "date"

LagOf(i) == records[i].uploaded_at.day - records[i].covered_date.day

\* the record is a backfill by the lag mode of one of its schedule rows,
\* or by the rule without a mode when there is no row
SkippedAsBackfill(i) ==
    /\ LagKnown(i)
    /\ IF \E j \in ScheduleRowsOf(i) : cv.upload_schedule_by_day[j].upload_lag_days_mode # None
       THEN \E j \in ScheduleRowsOf(i) :
               LET lm == cv.upload_schedule_by_day[j].upload_lag_days_mode
               IN lm # None /\ (LagOf(i) - lm[1] > 1 \/ lm[1] - LagOf(i) > 1)
       ELSE LagOf(i) > 1

\* the cutoff the detector resolves for the upload weekday of record i
CutoffOf(i) == _schedule_end_minutes_for_weekday(cv, WeekdayOfDay(records[i].uploaded_at.day))

ScheduleJudged(i) == HasUploadTime(i) /\ ~SkippedAsBackfill(i) /\ CutoffOf(i) # None

\* C17: a judged record is flagged upload_after_schedule iff its upload
\* minute of the day is strictly greater than the cutoff plus 240; every
\* anomaly has severity attention and a delta of upload minute minus cutoff
\* (14:00 against the cutoff 09:00: 300 minutes, 5.0 hours).
C17_LateRule ==
    pc = "schedule_done" =>
      /\ \A i \in 1..Len(records) :
            ScheduleJudged(i) =>
              /\ ScheduleFlagged(i) <=> records[i].uploaded_at.min > CutoffOf(i)[1] + 240
              /\ ScheduleFlagged(i) # ScheduleOk(i)
      /\ \A j \in 1..Len(schedule_res.anomalies) :
            /\ schedule_res.anomalies[j].incident_type = "upload_after_schedule"
            /\ schedule_res.anomalies[j].severity = "attention"
            /\ schedule_res.anomalies[j].delta_min =
                  records[schedule_res.anomalies[j].src].uploaded_at.min
                    - schedule_res.anomalies[j].cutoff
            /\ schedule_res.anomalies[j].delta_min > 240

\* Monday window end 09:00, Monday upload at 14:00 with lag 0: flagged with
\* a delta of 300 minutes
C17_Witness ==
    /\ pc = "schedule_done"
    /\ Len(records) = 1
    /\ records[1].uploaded_at = At(4, 14 * 60)
    /\ records[1].covered_date = OnDay(4)
    /\ Len(cv.upload_schedule_by_day) = 1
    /\ cv.upload_schedule_by_day[1].expected_window_utc = Window(HM(7, 30), HM(9, 0))
    /\ Len(schedule_res.anomalies) = 1
    /\ schedule_res.anomalies[1].cutoff = 9 * 60
    /\ schedule_res.anomalies[1].delta_min = 300

\* C18: a record whose lag (upload date minus covered date) is known goes
\* to ok unjudged when the CV has a lag mode for the upload weekday and
\* |lag - mode| > 1, or when the CV has no mode for that weekday and
\* lag > 1; every other record with an upload time, unknown lag included,
\* proceeds to the cutoff comparison.
C18_BackfillTolerance ==
    pc = "schedule_done" =>
      /\ \A i \in 1..Len(records) :
            HasUploadTime(i) =>
              /\ SkippedAsBackfill(i) => ScheduleOk(i) /\ ~ScheduleFlagged(i)
              /\ (~SkippedAsBackfill(i) /\ CutoffOf(i) # None) =>
                    (ScheduleFlagged(i) <=> records[i].uploaded_at.min > CutoffOf(i)[1] + 240)
      /\ schedule_res.stats.candidates_judged =
            Cardinality({i \in 1..Len(records) : ScheduleJudged(i)})

\* lag mode 2 and a Monday upload at 16:40 for Monday itself (lag 0): far
\* past every cutoff, but off the mode by 2 days and sent to ok unjudged
C18_Witness ==
    /\ pc = "schedule_done"
    /\ Len(records) = 1
    /\ records[1].uploaded_at = At(4, 1000)
    /\ records[1].covered_date = OnDay(4)
    /\ Len(cv.upload_schedule_by_day) = 1
    /\ cv.upload_schedule_by_day[1].upload_lag_days_mode = Some(2)
    /\ CutoffOf(1) # None
    /\ ScheduleOk(1) /\ ~ScheduleFlagged(1)
    /\ schedule_res.stats.candidates_judged = 0

\* the end of the window of a schedule row, in minutes, when it is a
\* window "start-end" or a single time whose last time parses
WindowEndOf(row) ==
    IF row.expected_window_utc.k \in {"range", "spaced"}
    THEN _parse_time_to_minutes(row.expected_window_utc.end)
    ELSE IF row.expected_window_utc.k = "single"
    THEN _parse_time_to_minutes(row.expected_window_utc.start)
    ELSE None

\* the first value that parses among window end, median, mode and mean
FirstParsed(row) ==
    IF WindowEndOf(row) # None THEN WindowEndOf(row)
    ELSE IF _parse_time_to_minutes(row.upload_hour_slot_median_utc) # None
    THEN _parse_time_to_minutes(row.upload_hour_slot_median_utc)
    ELSE IF _parse_time_to_minutes(row.upload_hour_slot_mode_utc) # None
    THEN _parse_time_to_minutes(row.upload_hour_slot_mode_utc)
    ELSE _parse_time_to_minutes(row.upload_hour_slot_mean_utc)

\* C19: for the schedule row of the upload weekday the cutoff is the first
\* value that parses among the end of expected_window_utc, the median slot,
\* the mode slot and the mean slot, in this order; when none parses or the
\* weekday has no row the record goes to ok and is not counted as judged.
C19_CutoffOrder ==
    pc = "schedule_done" =>
      \A i \in 1..Len(records) :
        (HasUploadTime(i) /\ ~SkippedAsBackfill(i)) =>
          /\ \A j \in ScheduleRowsOf(i) :
                LET c == FirstParsed(cv.upload_schedule_by_day[j])
                IN IF c = None THEN ScheduleOk(i) /\ ~ScheduleFlagged(i)
                   ELSE /\ ScheduleFlagged(i) <=> records[i].uploaded_at.min > c[1] + 240
                        /\ \A k \in 1..Len(schedule_res.anomalies) :
                              schedule_res.anomalies[k].src = i =>
                                schedule_res.anomalies[k].cutoff = c[1]
          /\ ScheduleRowsOf(i) = {} =>
                /\ ScheduleOk(i) /\ ~ScheduleFlagged(i)
                /\ schedule_res.stats.candidates_judged = 0

---------------------------------------------------------------------------
(* Properties of the missing-file detector *)

\* entity names without surrounding blanks
Trimmed(e) == IF e = " Shop " THEN "Shop" ELSE e

EntityNames == {"Shop", "Other"}

\* the records the detector kept as today's (its pass-through list)
TodayRecordsOf(e) ==
    {j \in 1..Len(missing_res.ok) : Trimmed(records[missing_res.ok[j]].entity) = e}

\* the missing_files anomalies for entity e
MissingFilesOf(e) ==
    {j \in 1..Len(missing_res.anomalies) :
        /\ missing_res.anomalies[j].incident_type = "missing_files"
        /\ missing_res.anomalies[j].entity = e}

ExpectedToday(e) ==
    \E j \in 1..Len(cv.entity_weekday) :
        /\ Trimmed(cv.entity_weekday[j].entity) = e
        /\ cv.entity_weekday[j].day = WeekdayOfDay(exec_day)
        /\ cv.entity_weekday[j].median_files # None
        /\ cv.entity_weekday[j].median_files[1] > 0

SeenLastWeekday(e) ==
    \E j \in 1..Len(last_week_records) : Trimmed(last_week_records[j].entity) = e

\* C20: with a non-empty entity x weekday table, a missing_files anomaly is
\* emitted for an entity exactly when the table has a row for it on today's
\* weekday with median_files > 0 and today's records hold no record of the
\* entity; its confidence_hint is high iff the entity appears in last
\* weekday's records, else medium; an entity with a record today never
\* gets one.
C20_MissingFiles ==
    (pc = "detected" /\ cv.entity_weekday # <<>>) =>
      /\ \A e \in EntityNames :
            /\ MissingFilesOf(e) # {} <=> (ExpectedToday(e) /\ TodayRecordsOf(e) = {})
            /\ \A j \in MissingFilesOf(e) :
                  /\ missing_res.anomalies[j].confidence_hint =
                        IF SeenLastWeekday(e) THEN "high" ELSE "medium"
                  /\ missing_res.anomalies[j].actual_count = 0
      /\ \A j \in 1..Len(missing_res.anomalies) :
            /\ missing_res.anomalies[j].incident_type = "missing_files"
            /\ missing_res.anomalies[j].entity \in EntityNames

\* Shop and Other are expected on Monday; Other sent a file today and Shop,
\* seen last weekday, sent one the day before only: one anomaly, for Shop,
\* with confidence high
C20_Witness ==
    /\ pc = "detected"
    /\ Len(records) = 2
    /\ records[1].entity = "Other" /\ records[1].uploaded_at = At(4, 600)
    /\ records[2].entity = "Shop" /\ records[2].uploaded_at = At(3, 600)
    /\ ExpectedToday("Shop") /\ ExpectedToday("Other")
    /\ SeenLastWeekday("Shop")
    /\ Len(missing_res.anomalies) = 1
    /\ missing_res.anomalies[1].entity = "Shop"
    /\ missing_res.anomalies[1].confidence_hint = "high"

\* the missing_source anomalies of the run
MissingSources ==
    {j \in 1..Len(missing_res.anomalies) :
        missing_res.anomalies[j].incident_type = "missing_source"}

\* the weekday-level table has a row for today's weekday with rows.median > 0
WeekdayMedianPositive ==
    \E j \in 1..Len(cv.weekday) :
        /\ cv.weekday[j].day = WeekdayOfDay(exec_day)
        /\ cv.weekday[j].rows["median"] # None
        /\ cv.weekday[j].rows["median"][1] > 0

\* C21: a missing_source anomaly is emitted only when the entity x weekday
\* table is empty, the weekday-level rows median of today's weekday is > 0
\* and today has no record; at most one is emitted per run, with
\* confidence_hint high iff last weekday had a record; with a non-empty
\* entity x weekday table none is emitted, even on a day without records.
C21_MissingSource ==
    pc = "detected" =>
      /\ Cardinality(MissingSources) <= 1
      /\ MissingSources # {} <=>
            (cv.entity_weekday = <<>> /\ WeekdayMedianPositive /\ missing_res.ok = <<>>)
      /\ cv.entity_weekday # <<>> => MissingSources = {}
      /\ \A j \in MissingSources :
            missing_res.anomalies[j].confidence_hint =
              IF last_week_records # <<>> THEN "high" ELSE "medium"

\* no entity table, Monday median 5, the only record was uploaded the day
\* before and last weekday had a record: one missing_source, confidence high
C21_Witness ==
    /\ pc = "detected"
    /\ cv.entity_weekday = <<>>
    /\ WeekdayMedianPositive
    /\ Len(records) = 1 /\ records[1].uploaded_at = At(3, 600)
    /\ last_week_records # <<>>
    /\ Len(missing_res.anomalies) = 1
    /\ missing_res.anomalies[1].incident_type = "missing_source"
    /\ missing_res.anomalies[1].confidence_hint = "high"

---------------------------------------------------------------------------
(* Determinism *)

\* the days the wall clock can show during a run for the execution day
WallClockDays == {exec_day, exec_day + 1}

\* C22: two runs of a detector on the same records, CV and execution date
\* give identical output; in particular the missing-file detector's result
\* does not depend on the wall-clock day of the run, also when a record's
\* uploaded_at cannot be parsed.
C22_Deterministic ==
    pc = "detected" =>
      /\ empty_res = EmptyDetect(records, cv, folder_weekday)
      /\ volume_res = VolumeDetect(records, cv, folder_weekday)
      /\ schedule_res = ScheduleDetect(records, cv, folder_weekday)
      /\ \A now_day \in WallClockDays :
            missing_res = MissingDetect(records, cv, last_week_records, exec_day, now_day)

---------------------------------------------------------------------------
(* Error handling *)

\* C23: no component raises because a record has a malformed field
\* (non-numeric rows or file_size, unparseable uploaded_at or
\* covered_date): the dedup resolver and the classifier complete, and each
\* detector returns a result for the whole batch.
C23_FailOpen ==
    /\ pc # "raised"
    /\ pc = "detected" =>
          /\ Len(empty_res.ok) + Len(empty_res.anomalies) = Len(records)
          /\ Len(volume_res.ok) + Len(volume_res.anomalies) = Len(records)
          /\ Len(schedule_res.ok) + Len(schedule_res.anomalies) = Len(records)
          /\ "stats" \in DOMAIN missing_res
    /\ pc = "classified" =>
          Len(final) + Len(removed) + Len(harmless) = Len(records)

---------------------------------------------------------------------------
(* Partition of the detector outputs *)

\* the positions of the input list a result puts in ok / in anomalies
OkPositions(res) == Range(res.ok)

AnomalyPositions(res) == {res.anomalies[j].src : j \in 1..Len(res.anomalies)}

\* ok and anomalies together hold every input position exactly once
IsPartition(res) ==
    /\ Len(res.ok) + Len(res.anomalies) = Len(records)
    /\ OkPositions(res) \cup AnomalyPositions(res) = 1..Len(records)
    /\ OkPositions(res) \cap AnomalyPositions(res) = {}

\* every field of the original record is in the anomaly, unchanged
KeepsFields(res) ==
    \A j \in 1..Len(res.anomalies) :
        LET a == res.anomalies[j]
        IN \A k \in DOMAIN records[a.src] :
              k \in DOMAIN a /\ a[k] = records[a.src][k]

\* records the detector does not judge: rows not 0 (empty), rows absent,
\* non-numeric or 0 (volume), no parseable upload time (late upload)
NotEmptyCandidate(i) == IntOrNone(records[i].rows) # Some(0)

NotVolumeCandidate(i) == IntOrNone(records[i].rows) \in {None, Some(0)}

NotScheduleCandidate(i) == records[i].uploaded_at.k # "ts"

\* C24: each of the empty, volume and late-upload detectors returns a
\* partition of its input: every record is in exactly one of ok and
\* anomalies, the records that are not candidates are in ok, and an
\* anomaly keeps all fields of the record it was made from.
C24_Partition ==
    pc = "schedule_done" =>
      /\ IsPartition(empty_res) /\ IsPartition(volume_res) /\ IsPartition(schedule_res)
      /\ KeepsFields(empty_res) /\ KeepsFields(volume_res) /\ KeepsFields(schedule_res)
      /\ \A i \in 1..Len(records) :
            /\ NotEmptyCandidate(i) => i \in OkPositions(empty_res)
            /\ NotVolumeCandidate(i) => i \in OkPositions(volume_res)
            /\ NotScheduleCandidate(i) => i \in OkPositions(schedule_res)

\* one batch in which each of the three detectors flags a record and
\* passes a non-candidate to ok
C24_Witness ==
    /\ pc = "schedule_done"
    /\ empty_res.anomalies # <<>> /\ volume_res.anomalies # <<>>
    /\ schedule_res.anomalies # <<>>
    /\ \E i \in 1..Len(records) : NotVolumeCandidate(i)
    /\ \E i \in 1..Len(records) : NotScheduleCandidate(i)

---------------------------------------------------------------------------
(* Orchestrator fan-out *)

\* the jobs inside their semaphore section
Inside == {j \in DOMAIN job : job[j] = "running"}

\* a job leaves the queue of the semaphore only by entering the section
LeavesQueueByAcquiring ==
    \A j \in DOMAIN job :
        (job[j] = "waiting" /\ job'[j] # "waiting") => job'[j] = "running"

FanOutBounded ==
    /\ call.fn = "_process_dataset" => Cardinality(Inside) <= 4
    /\ call.fn = "_extract_one_cv" => Cardinality(Inside) <= 4
    /\ call.fn = "_run_today_detectors_and_aggregate" => Cardinality(Inside) <= 8

\* C25: in every interleaving at most 4 per-CV jobs, at most 4 batches of
\* one CV and at most 8 detector bundles are inside their semaphore section
\* at once, and every job that queued on its semaphore eventually acquires
\* it when every running job finishes.
C25_BoundedFanOut ==
    /\ []FanOutBounded
    /\ [][LeavesQueueByAcquiring]_vars
    /\ (waiters # <<>>) ~> (waiters = <<>>)

\* a full pool with a job queued behind it
C25_Witness ==
    /\ call.fn # "none"
    /\ Cardinality(Inside) = SemLimit(call.fn)
    /\ waiters # <<>>

---------------------------------------------------------------------------
(* Batched extraction *)

\* the items of the batches, batch after batch in ascending start index
ItemsInBatchOrder == Flatten([j \in 1..Len(call.answers) |-> call.answers[j]])

\* some batch completed before a batch with a smaller start index
CompletedOutOfOrder ==
    \E k \in 1..(Len(results) - 1) : results[k][1] > results[k + 1][1]

\* C26: for every order in which the batch tasks complete, the merged
\* inferred_batch is the concatenation of the batches' items in ascending
\* batch start index.
C26_MergeInInputOrder ==
    (orch_pc = "returned" /\ call.fn = "_extract_one_cv" /\ call.has_rules) =>
        output.inferred_batch = ItemsInBatchOrder

\* the batches completed out of order and each returned an item
C26_Witness ==
    /\ orch_pc = "returned"
    /\ call.fn = "_extract_one_cv"
    /\ CompletedOutOfOrder
    /\ \A k \in 1..Len(results) : results[k][2] # <<>>

\* the inferred fields of output record i come from the item inferred for
\* file i, or are absent when no item was returned for file i
Aligned(items) ==
    \A i \in 1..Len(items) : items[i].inferred_from \in {i, EmptyItem}

\* C27: _extract_one_cv returns one record per source file in source order
\* and the inferred fields of the i-th record come from the item inferred
\* for the i-th file, also when a batch returns fewer or more items than
\* it was given.
C27_Alignment ==
    (orch_pc = "returned" /\ call.fn = "_extract_one_cv") =>
        /\ Len(output.full_items) = call.n
        /\ \A i \in 1..call.n : output.full_items[i].filename = i
        /\ Aligned(output.full_items)

---------------------------------------------------------------------------
(* Failure isolation between sources *)

FailedCVs == {j \in DOMAIN job : job[j] = "failed"}

CompletedCVs == {j \in DOMAIN job : job[j] = "done"}

\* C28: when the job of one CV raises, _process_dataset does not raise; it
\* returns after every other CV job has run to completion, per_cv holds
\* exactly the CVs whose job completed, and their anomalies are in the
\* aggregate.
C28_FailureIsolation ==
    call.fn = "_process_dataset" =>
      /\ orch_pc # "raised"
      /\ orch_pc = "returned" =>
            /\ FailedCVs \cup CompletedCVs = DOMAIN job
            /\ output.per_cv = CompletedCVs
            /\ output.per_cv \cap FailedCVs = {}
            /\ call.compute_anomalies => CompletedCVs \subseteq Range(output.all_anoms)

\* a run with anomalies enabled in which one CV job raised and two others
\* completed
C28_Witness ==
    /\ call.fn = "_process_dataset"
    /\ orch_pc = "returned"
    /\ call.compute_anomalies
    /\ FailedCVs # {}
    /\ Cardinality(CompletedCVs) >= 2

---------------------------------------------------------------------------
(* Conservation in the deduplication resolver *)

\* the input positions found in the three outputs
OutputPositions ==
    Range(final) \cup {removed[k].idx : k \in 1..Len(removed)} \cup Range(harmless)

\* C29: the three outputs of the resolver together contain each input
\* record exactly once and nothing else:
\* len(final) + len(removed) + len(harmless) = len(records).
C29_Conservation ==
    pc = "deduped" =>
      /\ Len(final) + Len(removed) + Len(harmless) = Len(records)
      /\ OutputPositions = 1..Len(records)

\* a list of full length with a keeper in final and two records moved to
\* removed or harmless
C29_Witness ==
    /\ pc = "deduped"
    /\ Len(records) = MaxRecs
    /\ Len(final) >= 1
    /\ Len(removed) + Len(harmless) = 2

---------------------------------------------------------------------------
(* The late-upload comparison stays within one calendar day *)

\* the cutoffs of the schedule rows of weekday d
CutoffsOn(d) ==
    {FirstParsed(cv.upload_schedule_by_day[j])[1] :
        j \in {k \in 1..Len(cv.upload_schedule_by_day) :
                 /\ cv.upload_schedule_by_day[k].day = d
                 /\ FirstParsed(cv.upload_schedule_by_day[k]) # None}}

UploadWeekday(i) == WeekdayOfDay(records[i].uploaded_at.day)

\* C30: the upload time of day is at most 1439 minutes, so a record
\* uploaded on a weekday whose cutoff is 19:59 or later is never flagged
\* upload_after_schedule; an upload after midnight is judged only against
\* the cutoff of the weekday it was uploaded on.
C30_WithinOneDay ==
    pc = "schedule_done" =>
      \A i \in 1..Len(records) :
        HasUploadTime(i) =>
          /\ records[i].uploaded_at.min <= 1439
          /\ (\E c \in CutoffsOn(UploadWeekday(i)) : c >= 19 * 60 + 59) => ~ScheduleFlagged(i)
          /\ ScheduleFlagged(i) =>
                \E c \in CutoffsOn(UploadWeekday(i)) : records[i].uploaded_at.min > c + 240
          /\ (~SkippedAsBackfill(i)
                /\ \E c \in CutoffsOn(UploadWeekday(i)) : records[i].uploaded_at.min > c + 240)
               => ScheduleFlagged(i)

\* Monday's cutoff is 19:59: the Monday upload at 23:59 is not flagged,
\* and the Tuesday upload at 06:00 is flagged against Tuesday's 01:00
C30_Witness ==
    /\ pc = "schedule_done"
    /\ Len(records) = 2
    /\ records[1].uploaded_at = At(4, 1439) /\ records[1].covered_date = OnDay(4)
    /\ records[2].uploaded_at = At(5, 6 * 60)
    /\ CutoffsOn("Mon") = {19 * 60 + 59}
    /\ CutoffsOn("Tue") = {60}
    /\ ScheduleOk(1) /\ ~ScheduleFlagged(1)
    /\ ScheduleFlagged(2)

====
